---------------------------- MODULE Spec2Model ----------------------------
(***************************************************************************)
(* A model of the agent SDK core of flowq-app:                             *)
(*   - the control protocol handler (control/protocol.rs),                 *)
(*   - the subprocess transport and the bidirectional client               *)
(*     (transport/subprocess.rs, client/mod.rs),                           *)
(*   - the memory tool (src-tauri/src/memory_tool.rs),                     *)
(*   - the direct-provider tool-use loop (src-tauri/src/chat.rs).          *)
(* Each subsystem has its own specification over its own variables; the    *)
(* variables of the other subsystems stay at their initial values.         *)
(***************************************************************************)
EXTENDS Integers, Sequences, FiniteSets, TLC

VARIABLES
    \* ---- control protocol handler (ProtocolHandler) ----
    next_request_id,    \* AtomicU64 counter
    initialized,        \* AtomicBool
    pending_requests,   \* HashMap<RequestId, PendingRequest>: id -> slot index
    slots,              \* the one-shot slots handed out, by index
    requests,           \* the ControlRequest each task holds, if any
    generated,          \* the ids returned by next_id, in generation order
    hook_tx,            \* Option<UnboundedSender>: "none" | "open" | "closed"
    permission_tx,      \* likewise
    hook_chan,          \* items sent on the hook channel
    permission_chan,    \* items sent on the permission channel
    lastOp,             \* the operation of the last step and its outcome
    \* ---- direct-provider tool-use loop (ChatClient::send_*) ----
    chat_provider,      \* "anthropic" | "bedrock"
    memory_tool,        \* Option<MemoryTool>: TRUE when a workspace is given
    chat_pc,            \* "loop" | "returned_ok" | "returned_err"
    iteration,          \* the for-loop variable
    calls,              \* provider calls issued so far
    messages,           \* the roles of the messages of the request, in order
    chat_last,          \* the last response and what the loop did with it
    final_text,         \* the text of the ChatResponse
    \* ---- memory tool (MemoryTool) and the filesystem under it ----
    fs,                 \* the filesystem: canonical absolute path -> node
    mem_last,           \* the last command, its result and what it touched
    mem_commands,       \* commands executed so far
    \* ---- subprocess transport (SubprocessTransport) and its child ----
    ready,              \* AtomicBool
    stdin,              \* Option<ChildStdin>: "none" | "open"
    stdout,             \* Option<BufReader<ChildStdout>>: "none" | "open"
    process,            \* where the Child handle is: "none" | "transport" |
                        \* "reader" (moved into the reader task) | "waited" |
                        \* "dropped" (let go without wait or kill)
    reader_task,        \* "none" | "reading" | "waiting" | "finished" | "aborted"
    json_buffer,        \* the fragments accumulated by the reader task
    loop_left,          \* how the read loop was left: "no" | "eof" | "error" |
                        \* "receiver_gone"
    child,              \* the child process: state and exit status
    closed,             \* close() has been called
    lines_read,         \* lines read from stdout so far
    arrived,            \* history: the data messages read from stdout, by line
    msg_stream,         \* the channel of read_messages
    \* ---- bidirectional client (ClaudeSDKClient) ----
    transport_lock,     \* holder of the Mutex around the transport
    writer_pc,          \* per writer: "idle" | "writing" | "stopped"
    writer_line,        \* per writer: the line it is writing
    writer_part,        \* per writer: the piece of the line that goes next
    writes,             \* every write called, by line: who, when, result
    stdin_bytes,        \* what the child's stdin received: <<line, piece>>
    control_chan,       \* the control channel (control_tx / control_rx)
    reader_pc,          \* message_reader_task: "none" | "running" | "stopped"
    message_chan,       \* the message channel (message_tx / message_rx)
    delivered,          \* what next_message returned, in order
    client_life,        \* "alive" | "dropped" | "transport_dropped"
    hook_task,          \* hook_handler_task: "none" | "waiting" | "stopped"
    permission_task,    \* permission_handler_task, likewise
    hook_outputs,       \* what hook_handler_task computed, event by event
    permission_results, \* what permission_handler_task computed, likewise
    \* ---- hook manager and permission manager ----
    matchers,           \* HookManager::matchers
    hook_call,          \* the last HookManager::invoke and its result
    match_call,         \* the last HookManager::matches and its result
    perm_manager,       \* PermissionManager: callback and the two lists
    perm_call,          \* the last can_use_tool and its result
    \* ---- environment of the spawned child ----
    parent_env,         \* std::env::vars() of the parent process
    options_env,        \* ClaudeAgentOptions::env
    cwd,                \* SubprocessTransport::cwd: Option<PathBuf>
    child_env,          \* the environment the child was spawned with
    \* ---- single calls of functions that keep no state ----
    text_call,          \* the last call on a file's text and its result
    mcp_call,           \* the last SdkMcpServer::handle_request and its response
    \* ---- the locks of the bidirectional client ----
    lock_holder,        \* per mutex: the task that holds it
    lock_queue,         \* per mutex: the tasks waiting in lock().await, in order
    task_at,            \* per task: the statement it is at
    reader_locks,       \* transport.lock() calls of message_reader_task
    chans               \* the channels between the tasks

protoVars == <<next_request_id, initialized, pending_requests, slots, requests,
               generated, hook_tx, permission_tx, hook_chan, permission_chan>>

chatVars == <<chat_provider, memory_tool, chat_pc, iteration, calls, messages,
              chat_last, final_text>>

memVars == <<fs, mem_last, mem_commands>>

transportVars == <<ready, stdin, stdout, process, reader_task, json_buffer,
                   loop_left, child, closed, lines_read, arrived, msg_stream>>

clientVars == <<transport_lock, writer_pc, writer_line, writer_part, writes,
                stdin_bytes, control_chan, reader_pc, message_chan, delivered>>

lifeVars == <<client_life, hook_task, permission_task, hook_outputs,
              permission_results>>

managerVars == <<matchers, hook_call, match_call, perm_manager, perm_call>>

envVars == <<parent_env, options_env, cwd, child_env>>

callVars == <<text_call, mcp_call>>

lockVars == <<lock_holder, lock_queue, task_at, reader_locks, chans>>

vars == <<protoVars, lastOp, chatVars, memVars, transportVars, clientVars,
          lifeVars, managerVars, envVars, callVars, lockVars>>

\* Frame conditions: a step of one subsystem leaves the others alone
ProtoOnly ==
    UNCHANGED <<chatVars, memVars, transportVars, clientVars, lifeVars, managerVars,
                envVars, callVars, lockVars>>
ChatOnly ==
    UNCHANGED <<protoVars, lastOp, memVars, transportVars, clientVars, lifeVars,
                managerVars, envVars, callVars, lockVars>>
MemOnly ==
    UNCHANGED <<protoVars, lastOp, chatVars, transportVars, clientVars, lifeVars,
                managerVars, envVars, callVars, lockVars>>

-----------------------------------------------------------------------------
(* Bounds of the model *)

MaxRequests == 2        \* ids generated per handler (pending-table runs)
MaxIds == 11            \* ids generated per handler (id-generation runs)
MaxSlots == 2           \* send_request calls per handler
MaxEvents == 2          \* hook / permission envelopes handled

-----------------------------------------------------------------------------
(* Helpers *)

Range(s) == {s[i] : i \in 1..Len(s)}

NoOp == [op |-> "none"]

-----------------------------------------------------------------------------
(* Control protocol handler: control/protocol.rs *)

Methods == {"interrupt", "send_message", "hook_response", "permission_response"}

RECURSIVE Digits(_)
\* Decimal rendering of a u64 by format!("{id}")
Digits(n) == IF n < 10 THEN <<n>> ELSE Digits(n \div 10) \o <<n % 10>>

\* format!("req-{id}")
FormatRequestId(n) == <<"r", "e", "q", "-">> \o Digits(n)

\* fetch_add(1, SeqCst): the value the counter takes
FetchAddMut(n) == n
FetchAdd(n) == n + 1

\* ProtocolHandler::next_id: returns the id, advances the counter
next_id == FormatRequestId(next_request_id)

\* The tasks that hold a handle on the protocol handler and create requests:
\* the public API (interrupt, respond_to_hook, respond_to_permission and the
\* public create_* functions), hook_handler_task and permission_handler_task
Tasks == {"api", "hook_handler", "permission_handler"}

TaskMethods(t) ==
    CASE t = "api" -> Methods
      [] t = "hook_handler" -> {"hook_response"}
      [] t = "permission_handler" -> {"permission_response"}

None == [method |-> "none", id |-> << >>]

\* create_interrupt_request / create_send_message_request /
\* create_hook_response / create_permission_response, called by task t, which
\* keeps the request it got (and lets go of the one it held before)
CreateRequest(t, method, max) ==
    /\ ProtoOnly
    /\ next_request_id <= max
    /\ requests' = [requests EXCEPT ![t] = [method |-> method, id |-> next_id]]
    /\ generated' = Append(generated, next_id)
    /\ next_request_id' = FetchAdd(next_request_id)
    /\ lastOp' = NoOp
    /\ UNCHANGED <<initialized, pending_requests, slots, hook_tx, permission_tx,
                   hook_chan, permission_chan>>

\* ProtocolHandler::set_initialized(true)
SetInitialized ==
    /\ ProtoOnly
    /\ ~initialized
    /\ initialized' = TRUE
    /\ lastOp' = NoOp
    /\ UNCHANGED <<next_request_id, pending_requests, slots, requests, generated,
                   hook_tx, permission_tx, hook_chan, permission_chan>>

\* The states of a one-shot slot as its Receiver sees them: nothing sent yet,
\* the Sender dropped without sending, or a response sent
Waiting == [state |-> "waiting"]
Closed == [state |-> "closed"]
Resolved(response) == [state |-> "resolved", response |-> response]

\* ProtocolHandler::get_request_id
get_request_id(request) == request.id

\* HashMap::insert: an entry already under the key is replaced, and its
\* PendingRequest (the oneshot Sender) is dropped, which closes its slot
InsertPendingMut(id, slot) ==
    /\ pending_requests' =
           [k \in DOMAIN pending_requests \cup {id} |->
               IF k = id THEN slot ELSE pending_requests[k]]
    /\ slots' = Append(
           IF id \in DOMAIN pending_requests
               THEN [slots EXCEPT ![pending_requests[id]] = Closed]
               ELSE slots,
           IF lastOp.op = "handle_response" /\ lastOp.response.id = id
               THEN Resolved(lastOp.response)
               ELSE Waiting)
InsertPending(id, slot) ==
    /\ pending_requests' =
           [k \in DOMAIN pending_requests \cup {id} |->
               IF k = id THEN slot ELSE pending_requests[k]]
    /\ slots' = Append(
           IF id \in DOMAIN pending_requests
               THEN [slots EXCEPT ![pending_requests[id]] = Closed]
               ELSE slots,
           Waiting)

\* ProtocolHandler::send_request
SendRequest(request) ==
    /\ ProtoOnly
    /\ Len(slots) < MaxSlots
    /\ IF ~initialized
          THEN UNCHANGED <<pending_requests, slots>>
          ELSE InsertPending(get_request_id(request), Len(slots) + 1)
    /\ lastOp' = NoOp
    /\ UNCHANGED <<next_request_id, initialized, requests, generated,
                   hook_tx, permission_tx, hook_chan, permission_chan>>

\* set_hook_channel / set_permission_channel
SetHookChannel ==
    /\ ProtoOnly
    /\ hook_tx = "none"
    /\ hook_tx' = "open"
    /\ lastOp' = NoOp
    /\ UNCHANGED <<next_request_id, initialized, pending_requests, slots, requests,
                   generated, permission_tx, hook_chan, permission_chan>>

SetPermissionChannel ==
    /\ ProtoOnly
    /\ permission_tx = "none"
    /\ permission_tx' = "open"
    /\ lastOp' = NoOp
    /\ UNCHANGED <<next_request_id, initialized, pending_requests, slots, requests,
                   generated, hook_tx, hook_chan, permission_chan>>

\* The receiving end of a channel is dropped by its owner
DropHookReceiver ==
    /\ ProtoOnly
    /\ hook_tx = "open"
    /\ hook_tx' = "closed"
    /\ lastOp' = NoOp
    /\ UNCHANGED <<next_request_id, initialized, pending_requests, slots, requests,
                   generated, permission_tx, hook_chan, permission_chan>>

DropPermissionReceiver ==
    /\ ProtoOnly
    /\ permission_tx = "open"
    /\ permission_tx' = "closed"
    /\ lastOp' = NoOp
    /\ UNCHANGED <<next_request_id, initialized, pending_requests, slots, requests,
                   generated, hook_tx, hook_chan, permission_chan>>

\* The ids a response from the CLI may carry
ResponseIds == {FormatRequestId(n) : n \in 1..MaxRequests} \cup {<<"x">>}

PendingResponses == [status : {"success", "error"}, id : ResponseIds]

EventResponses == [status : {"hook", "permission"}, id : {<<"h">>}]

ControlResponses == PendingResponses \cup EventResponses

\* handle_response, arms Success | Error: pop the slot and fulfil it
ResolvePendingMut(response) ==
    IF response.id \in DOMAIN pending_requests
        THEN /\ slots' = [slots EXCEPT ![pending_requests[response.id]] = Resolved(response)]
             /\ UNCHANGED pending_requests
        ELSE UNCHANGED <<pending_requests, slots>>
ResolvePending(response) ==
    IF response.id \in DOMAIN pending_requests
        THEN /\ slots' = [slots EXCEPT ![pending_requests[response.id]] = Resolved(response)]
             /\ pending_requests' =
                    [k \in DOMAIN pending_requests \ {response.id} |->
                        pending_requests[k]]
        ELSE UNCHANGED <<pending_requests, slots>>

\* handle_response, arms Hook | Permission: forward on the channel if attached;
\* a send on a channel whose receiver is gone is a protocol error
ForwardEvent(tx, chan, response) ==
    IF tx = "open" THEN chan \o <<response.id>> ELSE chan

ForwardOk(tx) == tx # "closed"

\* ProtocolHandler::handle_response
HandleResponse(response) ==
    /\ ProtoOnly
    /\ CASE response.status \in {"success", "error"} ->
                /\ ResolvePending(response)
                /\ lastOp' = [op |-> "handle_response", response |-> response, ok |-> TRUE]
                /\ UNCHANGED <<hook_chan, permission_chan>>
         [] response.status = "hook" ->
                /\ Len(hook_chan) < MaxEvents
                /\ hook_chan' = ForwardEvent(hook_tx, hook_chan, response)
                /\ lastOp' = [op |-> "handle_response", response |-> response,
                              ok |-> ForwardOk(hook_tx)]
                /\ UNCHANGED <<pending_requests, slots, permission_chan>>
         [] response.status = "permission" ->
                /\ Len(permission_chan) < MaxEvents
                /\ permission_chan' =
                       ForwardEvent(permission_tx, permission_chan, response)
                /\ lastOp' = [op |-> "handle_response", response |-> response,
                              ok |-> ForwardOk(permission_tx)]
                /\ UNCHANGED <<pending_requests, slots, hook_chan>>
    /\ UNCHANGED <<next_request_id, initialized, requests, generated,
                   hook_tx, permission_tx>>

ProtoInit ==
    /\ next_request_id = 1
    /\ initialized = FALSE
    /\ pending_requests = << >>
    /\ slots = << >>
    /\ requests = [t \in Tasks |-> None]
    /\ generated = << >>
    /\ hook_tx = "none"
    /\ permission_tx = "none"
    /\ hook_chan = << >>
    /\ permission_chan = << >>

ProtoNext ==
    \/ \E t \in Tasks : \E m \in TaskMethods(t) : CreateRequest(t, m, MaxRequests)
    \/ SetInitialized
    \/ \E t \in Tasks : requests[t] # None /\ SendRequest(requests[t])
    \/ \E r \in PendingResponses : HandleResponse(r)

-----------------------------------------------------------------------------
(* Direct-provider tool-use loop: src-tauri/src/chat.rs *)

MAX_ITERATIONS == 10

Providers == {"anthropic", "bedrock"}

Null == "null"

\* Content blocks of a provider response (AnthropicResponseContent, or the
\* ContentBlock of a Bedrock Converse output)
TextBlock(t) ==
    [type |-> "text", text |-> t, id |-> Null, name |-> Null, input |-> Null]
ToolUseBlock(id, name) ==
    [type |-> "tool_use", text |-> Null, id |-> id, name |-> name, input |-> "cmd"]
\* A tool_use block without an id (the field is optional on the Anthropic wire)
ToolUseNoId == [type |-> "tool_use", text |-> Null, id |-> Null,
                name |-> "memory", input |-> "cmd"]
\* A block of another type
OtherBlock == [type |-> "thinking", text |-> Null, id |-> Null, name |-> Null,
               input |-> Null]

Contents(provider) ==
    { << >>,
      <<TextBlock("a")>>,
      <<TextBlock("a"), ToolUseBlock("t1", "memory")>>,
      <<TextBlock("a"), ToolUseBlock("t1", "memory"), TextBlock("b")>>,
      <<ToolUseBlock("t1", "memory"), TextBlock("b"), ToolUseBlock("t2", "other")>>,
      <<OtherBlock, ToolUseBlock("t1", "memory")>> }
        \cup (IF provider = "anthropic" THEN {<<ToolUseNoId>>} ELSE {})

StopReasons == {"end_turn", "tool_use", "max_tokens"}

\* What one provider call may come back with
ProviderResponses(provider) ==
    [status : {"ok"}, stop : StopReasons, content : Contents(provider)]
        \cup {[status |-> "error", stop |-> Null, content |-> << >>]}

RECURSIVE ExtractText(_)
\* content.iter().filter_map(|c| c.text.clone()).collect().join("") and
\* extract_bedrock_text
ExtractTextMut(content) ==
    IF content = << >> \/ Head(content).text = Null THEN << >>
    ELSE <<Head(content).text>>
ExtractText(content) ==
    IF content = << >> THEN << >>
    ELSE (IF Head(content).text # Null THEN <<Head(content).text>> ELSE << >>)
             \o ExtractText(Tail(content))

RECURSIVE ToolResults(_)
\* The tool_result blocks collected for one response: one per tool_use block
\* that carries id, name and input; the memory tool is run for name "memory"
ToolResults(content) ==
    IF content = << >> THEN << >>
    ELSE LET c == Head(content) IN
         (IF c.type = "tool_use" /\ c.id # Null /\ c.name # Null /\ c.input # Null
              THEN <<[tool_use_id |-> c.id,
                      content |-> IF c.name = "memory" THEN "memory_result"
                                  ELSE "unknown_tool"]>>
              ELSE << >>)
             \o ToolResults(Tail(content))

\* The assistant message pushed for a tool_use response
AssistantMessage(content) == [role |-> "assistant", content |-> content]

\* The user message with the tool results, pushed when there are any
UserMessages(content) ==
    IF ToolResults(content) # << >>
        THEN <<[role |-> "user", content |-> ToolResults(content)]>>
        ELSE << >>

\* for iteration in 0..MAX_ITERATIONS
LoopContinuesMut(i) == TRUE
LoopContinues(i) == i < MAX_ITERATIONS

Roles(ms) == [k \in 1..Len(ms) |-> ms[k].role]

\* One pass of the loop body of send_anthropic / send_bedrock: the provider
\* call, the stop-reason dispatch, and the loop exit that follows it
ChatIteration(response) ==
    /\ ChatOnly
    /\ chat_pc = "loop"
    /\ calls' = calls + 1
    /\ IF response.status = "error"
          THEN \* non-2xx, transport or decode failure: return Err
               /\ chat_pc' = "returned_err"
               /\ chat_last' = [response |-> response, pushed |-> << >>]
               /\ UNCHANGED <<iteration, messages, final_text>>
          ELSE IF response.stop = "tool_use" /\ memory_tool
          THEN LET pushed == <<AssistantMessage(response.content)>>
                                 \o UserMessages(response.content) IN
               /\ messages' = messages \o Roles(pushed)
               /\ chat_last' = [response |-> response, pushed |-> pushed]
               /\ iteration' = iteration + 1
               /\ chat_pc' = IF LoopContinues(iteration + 1) THEN "loop"
                              ELSE "returned_ok"
               /\ UNCHANGED final_text
          ELSE \* end_turn, another stop reason, or tool_use without a tool
               /\ final_text' = ExtractText(response.content)
               /\ chat_pc' = "returned_ok"
               /\ chat_last' = [response |-> response, pushed |-> << >>]
               /\ UNCHANGED <<iteration, messages>>
    /\ UNCHANGED <<chat_provider, memory_tool>>

ChatNext ==
    \E r \in ProviderResponses(chat_provider) : ChatIteration(r)

NoResponse == [response |-> [status |-> "none", stop |-> Null, content |-> << >>],
               pushed |-> << >>]

\* The state on entry to the loop; the request carries one user message
ChatInit ==
    /\ chat_provider \in Providers
    /\ memory_tool \in BOOLEAN
    /\ chat_pc = "loop"
    /\ iteration = 0
    /\ calls = 0
    /\ messages = <<"user">>
    /\ chat_last = NoResponse
    /\ final_text = << >>

\* The loop is not in use
ChatIdle ==
    /\ chat_provider = "anthropic"
    /\ memory_tool = FALSE
    /\ chat_pc = "idle"
    /\ iteration = 0
    /\ calls = 0
    /\ messages = << >>
    /\ chat_last = NoResponse
    /\ final_text = << >>

-----------------------------------------------------------------------------
(* Memory tool: src-tauri/src/memory_tool.rs, over a small filesystem *)

\* Symbolic links followed by one path lookup before it fails (ELOOP)
MaxSymlinkHops == 2

\* Commands executed in one run, after those that made the initial
\* filesystem
MaxCommands == 2

\* A path string is a sequence of characters, so that the substring tests
\* of resolve_path are computed on the text
Contains(s, sub) ==
    \E i \in 1..(Len(s) - Len(sub) + 1) : SubSeq(s, i, i + Len(sub) - 1) = sub

StartsWith(s, c) == Len(s) > 0 /\ s[1] = c

\* Path::starts_with, on components
IsPrefix(p, q) == Len(p) <= Len(q) /\ SubSeq(q, 1, Len(p)) = p

Parent(p) == IF p = <<>> THEN <<>> ELSE SubSeq(p, 1, Len(p) - 1)

DotDot == <<".", ".">>

\* Path::components: split on '/', empty and "." components normalised away
RECURSIVE SplitOn(_, _)
SplitOn(s, cur) ==
    IF s = <<>> THEN <<cur>>
    ELSE IF Head(s) = "/" THEN <<cur>> \o SplitOn(Tail(s), <<>>)
    ELSE SplitOn(Tail(s), Append(cur, Head(s)))

IsNormalComponent(c) == c # <<>> /\ c # <<".">>

Components(s) == SelectSeq(SplitOn(s, <<>>), IsNormalComponent)

\* PathBuf::join: an absolute argument replaces the base
Join(base, s) == IF StartsWith(s, "/") THEN Components(s) ELSE base \o Components(s)

\* The path arguments a command is called with
Paths == {
    <<>>,
    <<".">>,
    <<"a">>,
    <<"a", "/", "b">>,
    <<"l">>,
    <<"l", "/", "a">>,
    <<".", ".", "/", "a">>,
    <<"a", "/", ".", ".", "/", ".", ".", "/", "o">>,
    <<"%", "2", "e", "%", "2", "e", "/", "a">>,
    <<"%", "2", "E", "%", "2", "E", "/", "a">>,
    <<"/", "o", "/", "s">>,
    <<"\\", "a">> }

\* The new_path arguments rename is called with
NewPaths == {
    <<"a">>,
    <<"a", "/", "b">>,
    <<"l", "/", "a">>,
    <<".", ".", "/", "a">>,
    <<"%", "2", "E", "%", "2", "E", "/", "a">>,
    <<"/", "o", "/", "s">> }

\* workspace, workspace/.flowq/memories (MemoryTool::new) and a directory
\* that is not under the workspace
Workspace == << <<"w">> >>
memories_dir == Workspace \o << <<".", "f", "l", "o", "w", "q">>, <<"m", "e", "m", "o", "r", "i", "e", "s">> >>
Outside == << <<"o">> >>

Dir == [kind |-> "dir", target |-> <<>>]
File == [kind |-> "file", target |-> <<>>]
Link(target) == [kind |-> "link", target |-> target]

\* Path lookup as the operating system does it: cur is the canonical path
\* reached, rest the components left.  The result names the canonical
\* location, and whether something exists there; a missing last component
\* is where the lookup would create.  A lookup that fails on the way
\* (ENOENT, ENOTDIR, ELOOP) names the place the path stands for.
LookupFailed == [ok |-> FALSE, exists |-> FALSE, path |-> <<>>]

FailedAt(q) == [ok |-> FALSE, exists |-> FALSE, path |-> q]

RECURSIVE Walk(_, _, _, _)
Walk(f, cur, rest, hops) ==
    IF rest = <<>> THEN [ok |-> TRUE, exists |-> TRUE, path |-> cur]
    ELSE IF Head(rest) = DotDot THEN Walk(f, Parent(cur), Tail(rest), hops)
    ELSE LET q == Append(cur, Head(rest)) IN
         IF q \notin DOMAIN f
         THEN IF Tail(rest) = <<>>
              THEN [ok |-> TRUE, exists |-> FALSE, path |-> q]
              ELSE FailedAt(q \o Tail(rest))
         ELSE IF f[q].kind = "link"
         THEN IF hops = 0 THEN FailedAt(q \o Tail(rest))
              ELSE Walk(f, <<>>, f[q].target \o Tail(rest), hops - 1)
         ELSE IF f[q].kind = "file" /\ Tail(rest) # <<>> THEN FailedAt(q \o Tail(rest))
         ELSE Walk(f, q, Tail(rest), hops)

Lookup(f, p) == Walk(f, <<>>, p, MaxSymlinkHops)

\* Path::exists, Path::canonicalize, Path::is_dir, Path::is_file: all
\* follow symbolic links
Found(at) == at.ok /\ at.exists
KindAt(f, at) == IF Found(at) THEN f[at.path].kind ELSE "none"

Exists(f, p) == Found(Lookup(f, p))
Canonicalize(f, p) == Lookup(f, p).path
IsDir(f, p) == KindAt(f, Lookup(f, p)) = "dir"
IsFile(f, p) == KindAt(f, Lookup(f, p)) = "file"

\* The location of the last component itself, links in it not followed
\* (mkdir, unlink, rename)
LinkLocation(f, p) ==
    LET In(up) ==
            IF KindAt(f, up) = "dir"
            THEN [ok |-> TRUE, exists |-> Append(up.path, p[Len(p)]) \in DOMAIN f,
                  path |-> Append(up.path, p[Len(p)])]
            ELSE LookupFailed
    IN  IF p = <<>> \/ p[Len(p)] = DotDot THEN Lookup(f, p)
        ELSE In(Lookup(f, Parent(p)))

WithNode(f, q, node) == [x \in DOMAIN f \cup {q} |-> IF x = q THEN node ELSE f[x]]
Without(f, gone) == [x \in DOMAIN f \ gone |-> f[x]]
Subtree(f, q) == {x \in DOMAIN f : IsPrefix(q, x)}

\* fs::create_dir_all: make every missing directory on the way to p
RECURSIVE CreateDirAllFrom(_, _, _, _)
CreateDirAllFrom(f, p, i, made) ==
    LET Mkdir(at) ==
            IF at.ok /\ ~at.exists
            THEN CreateDirAllFrom(WithNode(f, at.path, Dir), p, i + 1, made \cup {at.path})
            ELSE [ok |-> FALSE, fs |-> f, made |-> made]
    IN  IF i > Len(p) THEN [ok |-> TRUE, fs |-> f, made |-> made]
        ELSE IF IsDir(f, SubSeq(p, 1, i)) THEN CreateDirAllFrom(f, p, i + 1, made)
        ELSE Mkdir(LinkLocation(f, SubSeq(p, 1, i)))

CreateDirAll(f, p) == CreateDirAllFrom(f, p, 1, {})

\* fs::write: create or truncate, following a link in the last component
FsWrite(f, p) ==
    LET WriteAt(at) ==
            IF at.ok /\ (at.exists => f[at.path].kind = "file")
            THEN [ok |-> TRUE, fs |-> WithNode(f, at.path, File), path |-> at.path]
            ELSE [ok |-> FALSE, fs |-> f, path |-> <<>>]
    IN  WriteAt(Lookup(f, p))

\* fs::remove_file and fs::remove_dir_all: neither follows a link in the
\* last component; remove_dir_all of a link removes the link
FsRemove(f, p) ==
    LET RemoveAt(at) ==
            IF Found(at)
            THEN [ok |-> TRUE, path |-> at.path,
                  fs |-> IF f[at.path].kind = "dir" THEN Without(f, Subtree(f, at.path))
                         ELSE Without(f, {at.path})]
            ELSE [ok |-> FALSE, path |-> <<>>, fs |-> f]
    IN  RemoveAt(LinkLocation(f, p))

\* fs::rename: moves the node and everything under it; fails when the
\* source is missing, the destination lies inside the source, or the
\* destination exists and is of the other kind or a non-empty directory
FsRename(f, old, new) ==
    LET Move(from, to) ==
            LET moved == Subtree(f, from.path)
                Moved(x) == to.path \o SubSeq(x, Len(from.path) + 1, Len(x))
                kept == Without(f, moved \cup {to.path})
            IN  IF /\ Found(from) /\ to.ok
                   /\ ~IsPrefix(from.path, to.path)
                   /\ to.exists => /\ (f[from.path].kind = "dir") = (f[to.path].kind = "dir")
                                   /\ Subtree(f, to.path) = {to.path}
                THEN [ok |-> TRUE, from |-> from.path, to |-> to.path,
                      fs |-> [x \in DOMAIN kept \cup {Moved(y) : y \in moved} |->
                                IF \E y \in moved : Moved(y) = x
                                THEN f[CHOOSE y \in moved : Moved(y) = x]
                                ELSE kept[x]]]
                ELSE [ok |-> FALSE, from |-> <<>>, to |-> <<>>, fs |-> f]
    IN  Move(LinkLocation(f, old), LinkLocation(f, new))

\* The three textual checks of resolve_path
HasParentDir(requested_path) == Contains(requested_path, <<".", ".">>)

HasEncodedDotMut(requested_path) == Contains(requested_path, <<"%", "2", "e">>)
HasEncodedDot(requested_path) ==
    \/ Contains(requested_path, <<"%", "2", "e">>)
    \/ Contains(requested_path, <<"%", "2", "E">>)

IsAbsolute(requested_path) ==
    StartsWith(requested_path, "/") \/ StartsWith(requested_path, "\\")

\* resolve_path: Ok(resolved) or Err, together with the filesystem it
\* leaves (it creates the memories directory), whether it made any
\* filesystem call, and the directories it made
ResolveErr(f, accessed, made) ==
    [ok |-> FALSE, resolved |-> <<>>, fs |-> f, accessed |-> accessed, made |-> made]

\* "Create directory if needed", shared by resolve_path, create and rename
EnsureDir(f, dir) ==
    IF Exists(f, dir)
    THEN [ok |-> TRUE, fs |-> f, made |-> {}]
    ELSE CreateDirAll(f, dir)

resolve_path(f, requested_path) ==
    LET resolved == IF requested_path = <<>> \/ requested_path = <<".">>
                    THEN memories_dir
                    ELSE Join(memories_dir, requested_path)
        Checked(mk) ==
            IF ~mk.ok THEN ResolveErr(mk.fs, TRUE, mk.made)
            ELSE IF /\ Exists(mk.fs, resolved)
                    /\ ~IsPrefix(Canonicalize(mk.fs, memories_dir),
                                 Canonicalize(mk.fs, resolved))
            THEN ResolveErr(mk.fs, TRUE, mk.made)
            ELSE [ok |-> TRUE, resolved |-> resolved, fs |-> mk.fs,
                  accessed |-> TRUE, made |-> mk.made]
    IN  IF HasParentDir(requested_path) THEN ResolveErr(f, FALSE, {})
        ELSE IF HasEncodedDot(requested_path) THEN ResolveErr(f, FALSE, {})
        ELSE IF IsAbsolute(requested_path) THEN ResolveErr(f, FALSE, {})
        ELSE Checked(EnsureDir(f, memories_dir))

\* What a command leaves behind: MemoryToolResult.success, the filesystem,
\* whether any filesystem call was made, the canonical locations read,
\* created, modified, renamed or removed, the canonical locations of the
\* paths resolve_path returned Ok for, and whether trigger_sync ran
Result(success, f, accessed, touched, resolved, synced) ==
    [success |-> success, fs |-> f, accessed |-> accessed, touched |-> touched,
     resolved |-> resolved, synced |-> synced]

MemError(r, f, touched) ==
    Result(FALSE, f, r.accessed, r.made \cup touched,
           IF r.ok THEN {Canonicalize(r.fs, r.resolved)} ELSE {}, FALSE)

MemSuccess(r, f, touched, synced) ==
    Result(TRUE, f, TRUE, r.made \cup touched, {Canonicalize(r.fs, r.resolved)}, synced)

view(f, path) ==
    LET OnPath(r) ==
            IF ~r.ok THEN MemError(r, r.fs, {})
            ELSE IF ~Exists(r.fs, r.resolved) THEN MemError(r, r.fs, {})
            ELSE MemSuccess(r, r.fs, {Canonicalize(r.fs, r.resolved)}, FALSE)
    IN  OnPath(resolve_path(f, path))

create(f, path) ==
    LET Written(r, mk, w) ==
            IF ~w.ok THEN MemError(r, mk.fs, mk.made)
            ELSE MemSuccess(r, w.fs, mk.made \cup {w.path}, TRUE)
        WithParent(r, mk) ==
            IF ~mk.ok THEN MemError(r, mk.fs, mk.made)
            ELSE Written(r, mk, FsWrite(mk.fs, r.resolved))
        OnPath(r) ==
            IF ~r.ok THEN MemError(r, r.fs, {})
            ELSE IF Exists(r.fs, r.resolved) THEN MemError(r, r.fs, {})
            ELSE WithParent(r, EnsureDir(r.fs, Parent(r.resolved)))
    IN  OnPath(resolve_path(f, path))

\* str_replace and insert: read the file, and write it back when the edit
\* applies (old_str found exactly once; insert_line within the file)
EditFile(f, path, applies) ==
    LET Written(r, read, w) ==
            IF ~w.ok THEN MemError(r, r.fs, read)
            ELSE MemSuccess(r, w.fs, read \cup {w.path}, TRUE)
        Read(r, read) ==
            IF ~applies THEN MemError(r, r.fs, read)
            ELSE Written(r, read, FsWrite(r.fs, r.resolved))
        OnPath(r) ==
            IF ~r.ok THEN MemError(r, r.fs, {})
            ELSE IF ~Exists(r.fs, r.resolved) THEN MemError(r, r.fs, {})
            ELSE IF ~IsFile(r.fs, r.resolved) THEN MemError(r, r.fs, {})
            ELSE Read(r, {Canonicalize(r.fs, r.resolved)})
    IN  OnPath(resolve_path(f, path))

str_replace(f, path, found_once) == EditFile(f, path, found_once)

insert(f, path, line_in_file) == EditFile(f, path, line_in_file)

delete(f, path) ==
    LET Removed(r, rm) ==
            IF ~rm.ok THEN MemError(r, r.fs, {})
            ELSE MemSuccess(r, rm.fs, {rm.path}, TRUE)
        OnPath(r) ==
            IF ~r.ok THEN MemError(r, r.fs, {})
            ELSE IF ~Exists(r.fs, r.resolved) THEN MemError(r, r.fs, {})
            ELSE IF r.resolved = memories_dir THEN MemError(r, r.fs, {})
            ELSE Removed(r, FsRemove(r.fs, r.resolved))
    IN  OnPath(resolve_path(f, path))

rename(f, old_path, new_path) ==
    LET Err(old, new, f2, touched) ==
            Result(FALSE, f2, TRUE, old.made \cup new.made \cup touched,
                   {Canonicalize(old.fs, old.resolved)}
                       \cup (IF new.ok THEN {Canonicalize(new.fs, new.resolved)} ELSE {}),
                   FALSE)
        Renamed(old, new, mk, mv) ==
            IF ~mv.ok THEN Err(old, new, mk.fs, mk.made)
            ELSE Result(TRUE, mv.fs, TRUE,
                        old.made \cup new.made \cup mk.made \cup {mv.from, mv.to},
                        {Canonicalize(old.fs, old.resolved),
                         Canonicalize(new.fs, new.resolved)}, TRUE)
        WithParent(old, new, mk) ==
            IF ~mk.ok THEN Err(old, new, mk.fs, mk.made)
            ELSE Renamed(old, new, mk, FsRename(mk.fs, old.resolved, new.resolved))
        ResolvedNew(old, new) ==
            IF ~new.ok THEN Err(old, new, new.fs, {})
            ELSE IF ~Exists(new.fs, old.resolved) THEN Err(old, new, new.fs, {})
            ELSE IF Exists(new.fs, new.resolved) THEN Err(old, new, new.fs, {})
            ELSE WithParent(old, new, EnsureDir(new.fs, Parent(new.resolved)))
        ResolvedOld(old) ==
            IF ~old.ok THEN MemError(old, old.fs, {})
            ELSE ResolvedNew(old, resolve_path(old.fs, new_path))
    IN  ResolvedOld(resolve_path(f, old_path))

\* MemoryTool::execute: one command, run to its end
NoPath == <<"-">>

Execute(cmd, path, new_path, res) ==
    /\ mem_commands < MaxCommands
    /\ mem_commands' = mem_commands + 1
    /\ fs' = res.fs
    /\ mem_last' = [cmd |-> cmd, path |-> path, new_path |-> new_path,
                    success |-> res.success, accessed |-> res.accessed,
                    touched |-> res.touched, resolved |-> res.resolved,
                    synced |-> res.synced]
    /\ MemOnly

View(path) == Execute("view", path, NoPath, view(fs, path))

Create(path) == Execute("create", path, NoPath, create(fs, path))

StrReplace(path, found_once) ==
    Execute("str_replace", path, NoPath, str_replace(fs, path, found_once))

Insert(path, line_in_file) ==
    Execute("insert", path, NoPath, insert(fs, path, line_in_file))

Delete(path) == Execute("delete", path, NoPath, delete(fs, path))

Rename(old_path, new_path) ==
    Execute("rename", old_path, new_path, rename(fs, old_path, new_path))

MemNext ==
    \/ \E path \in Paths : View(path)
    \/ \E path \in Paths : Create(path)
    \/ \E path \in Paths, found_once \in BOOLEAN : StrReplace(path, found_once)
    \/ \E path \in Paths, line_in_file \in BOOLEAN : Insert(path, line_in_file)
    \/ \E path \in Paths : Delete(path)
    \/ \E old_path \in Paths, new_path \in NewPaths : Rename(old_path, new_path)

\* The workspaces a tool is created on.  Every one has the workspace
\* directory and, outside it, a directory with a file in it.
BaseFs ==
    [x \in {<<>>, Workspace, Outside, Append(Outside, <<"s">>)} |->
        IF x = Append(Outside, <<"s">>) THEN File ELSE Dir]

WithMemories == WithNode(WithNode(BaseFs, Parent(memories_dir), Dir), memories_dir, Dir)

InitialFilesystems == {
    \* a fresh workspace: no .flowq yet
    BaseFs,
    \* a memories directory with one file
    WithNode(WithMemories, Append(memories_dir, <<"a">>), File),
    \* a memories directory with a directory and a file in it
    WithNode(WithNode(WithMemories, Append(memories_dir, <<"a">>), Dir),
             memories_dir \o << <<"a">>, <<"b">> >>, File),
    \* a memories directory with a file and a link to a directory outside it
    WithNode(WithNode(WithMemories, Append(memories_dir, <<"a">>), File),
             Append(memories_dir, <<"l">>), Link(Outside)),
    \* a memories directory holding a link to a directory outside it
    WithNode(WithMemories, Append(memories_dir, <<"l">>), Link(Outside)),
    \* ... a link to a file outside it
    WithNode(WithMemories, Append(memories_dir, <<"l">>), Link(Append(Outside, <<"s">>))),
    \* ... a link whose target does not exist
    WithNode(WithMemories, Append(memories_dir, <<"l">>), Link(Append(Outside, <<"n">>))) }

NoCommand ==
    [cmd |-> "none", path |-> NoPath, new_path |-> NoPath, success |-> FALSE,
     accessed |-> FALSE, touched |-> {}, resolved |-> {}, synced |-> FALSE]

MemInit ==
    /\ fs \in InitialFilesystems
    /\ mem_last = NoCommand
    /\ mem_commands = 0

\* The memory tool is not in use
MemIdle ==
    /\ fs = BaseFs
    /\ mem_last = NoCommand
    /\ mem_commands = 0

-----------------------------------------------------------------------------
(* The locks of the bidirectional client: client/mod.rs, and the lock on   *)
(* pending_requests inside the protocol handler, control/protocol.rs       *)

\* Items that may stand in one channel at a time
MaxQueued == 1

\* The tasks spawned by ClaudeSDKClient::new and the caller of the client's
\* methods (they take &mut self, so one call is in progress at a time)
ReaderTask == "message_reader_task"
WriterTask == "control_writer_task"
HookTask == "hook_handler_task"
PermissionTask == "permission_handler_task"
ApiCaller == "caller"
HandlerTasks == {HookTask, PermissionTask}
LockTasks == {ReaderTask, WriterTask, ApiCaller} \cup HandlerTasks

\* Arc<Mutex<SubprocessTransport>>, Arc<Mutex<ProtocolHandler>>,
\* ProtocolHandler::pending_requests, Arc<Mutex<HookManager>>,
\* Arc<Mutex<PermissionManager>>
Locks == {"transport", "protocol", "pending_requests", "hook_manager",
          "permission_manager"}

Unlocked == "unlocked"

ManagerOf(task) == IF task = HookTask THEN "hook_manager" ELSE "permission_manager"
EventsOf(task) == IF task = HookTask THEN "hook" ELSE "permission"

\* The channels hold what the receiving task tells apart: an interrupt from
\* the other requests on the control channel, an item on the others.
\* Where a task stands: the statement it is at, what it carries, and, while
\* it waits in lock().await, the statement it goes on with
At(pc, arg) == [pc |-> pc, arg |-> arg, then |-> "-"]
WaitingFor(lock, then, arg) == [pc |-> lock, arg |-> arg, then |-> then]
IsWaiting(task) == task_at[task].then # "-"

\* tokio::sync::Mutex::lock().await: taken at once when the mutex is free
\* and nobody waits for it, else the task queues up, first come first served
Acquire(task, lock, then, arg) ==
    IF lock_holder[lock] = Unlocked /\ lock_queue[lock] = << >>
    THEN /\ lock_holder' = [lock_holder EXCEPT ![lock] = task]
         /\ task_at' = [task_at EXCEPT ![task] = At(then, arg)]
         /\ UNCHANGED lock_queue
    ELSE /\ lock_queue' = [lock_queue EXCEPT ![lock] = Append(@, task)]
         /\ task_at' = [task_at EXCEPT ![task] = WaitingFor(lock, then, arg)]
         /\ UNCHANGED lock_holder

\* The guard is dropped: the mutex goes to the first task waiting, if any
Release(task, lock, then, arg) ==
    LET Woken(first) ==
            /\ lock_holder' = [lock_holder EXCEPT ![lock] = first]
            /\ lock_queue' = [lock_queue EXCEPT ![lock] = Tail(@)]
            /\ task_at' = [task_at EXCEPT
                   ![task] = At(then, arg),
                   ![first] = At(task_at[first].then, task_at[first].arg)]
    IN  /\ lock_holder[lock] = task
        /\ IF lock_queue[lock] = << >>
           THEN /\ lock_holder' = [lock_holder EXCEPT ![lock] = Unlocked]
                /\ task_at' = [task_at EXCEPT ![task] = At(then, arg)]
                /\ UNCHANGED lock_queue
           ELSE Woken(Head(lock_queue[lock]))

LocksOnly ==
    UNCHANGED <<protoVars, lastOp, chatVars, memVars, transportVars, clientVars,
                lifeVars, managerVars, envVars, callVars>>

\* What an Ok(value) of msg_stream.recv() turns out to be when the reader
\* looks at it: a control response for a pending request, a hook or
\* permission envelope, an init response of a wrong version, another
\* control message, or a message that is no control message
StreamItems == {"response", "hook", "permission", "bad_init", "other_control",
                "message"}

\* message_reader_task: transport.lock().await
ReaderLockTransport ==
    /\ LocksOnly
    /\ task_at[ReaderTask].pc = "start"
    /\ Acquire(ReaderTask, "transport", "read_messages", "-")
    /\ reader_locks' = reader_locks + 1
    /\ UNCHANGED chans

\* ... transport_guard.read_messages(), and the guard dropped at the end of
\* the block
ReaderReadMessagesMut ==
    /\ LocksOnly
    /\ task_at[ReaderTask].pc = "read_messages"
    /\ task_at' = [task_at EXCEPT ![ReaderTask] = At("recv", "-")]
    /\ UNCHANGED <<lock_holder, lock_queue, reader_locks, chans>>
ReaderReadMessages ==
    /\ LocksOnly
    /\ task_at[ReaderTask].pc = "read_messages"
    /\ Release(ReaderTask, "transport", "recv", "-")
    /\ UNCHANGED <<reader_locks, chans>>

\* msg_stream.recv().await returns an item; for Ok(value) the reader goes
\* for the protocol lock, for Err it reports and leaves the loop
ReaderRecv(ok) ==
    /\ LocksOnly
    /\ task_at[ReaderTask].pc = "recv"
    /\ IF ok
       THEN /\ Acquire(ReaderTask, "protocol", "deserialize", "-")
            /\ UNCHANGED chans
       ELSE /\ Len(chans["message"]) < MaxQueued
            /\ task_at' = [task_at EXCEPT ![ReaderTask] = At("done", "-")]
            /\ chans' = [chans EXCEPT !["message"] = Append(@, "item")]
            /\ UNCHANGED <<lock_holder, lock_queue>>
    /\ UNCHANGED reader_locks

\* The stream of the transport ends: the loop is left
ReaderStreamEnds ==
    /\ LocksOnly
    /\ task_at[ReaderTask].pc = "recv"
    /\ task_at' = [task_at EXCEPT ![ReaderTask] = At("done", "-")]
    /\ UNCHANGED <<lock_holder, lock_queue, reader_locks, chans>>

\* With the protocol guard: deserialize_message, and for a control message
\* the arm of it.  handle_response locks pending_requests for a success or
\* error response and sends a hook or permission envelope on its channel.
\* Then drop(protocol_guard); for a value that is no control message
\* parse_message and message_tx.send follow; after a failed init response
\* the error is sent and the loop is left
ReaderDeserialize(item) ==
    /\ LocksOnly
    /\ task_at[ReaderTask].pc = "deserialize"
    /\ lock_holder["protocol"] = ReaderTask
    /\ item \in {"hook", "permission"} => Len(chans[item]) < MaxQueued
    /\ item \in {"message", "bad_init"} => Len(chans["message"]) < MaxQueued
    /\ IF item = "response"
       THEN /\ Acquire(ReaderTask, "pending_requests", "handle_response", "-")
            /\ UNCHANGED chans
       ELSE /\ Release(ReaderTask, "protocol",
                       IF item = "bad_init" THEN "done" ELSE "recv", "-")
            /\ chans' = IF item \in {"hook", "permission"}
                        THEN [chans EXCEPT ![item] = Append(@, "item")]
                        ELSE IF item \in {"message", "bad_init"}
                        THEN [chans EXCEPT !["message"] = Append(@, "item")]
                        ELSE chans
    /\ UNCHANGED reader_locks

\* handle_response, arm Success | Error: the entry removed, the guard on
\* pending_requests dropped at the end of the arm
ReaderHandleResponse ==
    /\ LocksOnly
    /\ task_at[ReaderTask].pc = "handle_response"
    /\ Release(ReaderTask, "pending_requests", "drop_protocol", "-")
    /\ UNCHANGED <<reader_locks, chans>>

\* drop(protocol_guard) after handle_response
ReaderDropProtocol ==
    /\ LocksOnly
    /\ task_at[ReaderTask].pc = "drop_protocol"
    /\ Release(ReaderTask, "protocol", "recv", "-")
    /\ UNCHANGED <<reader_locks, chans>>

\* control_writer_task: control_rx.recv().await returns a request; for an
\* interrupt or a send-message request the task goes for the transport lock,
\* the other requests are skipped
WriterRecvMut ==
    /\ LocksOnly
    /\ task_at[WriterTask].pc = "recv"
    /\ chans["control"] # << >>
    /\ chans' = [chans EXCEPT !["control"] = Tail(@)]
    /\ Acquire(WriterTask, "transport", "write", "-")
    /\ UNCHANGED reader_locks
WriterRecv ==
    /\ LocksOnly
    /\ task_at[WriterTask].pc = "recv"
    /\ chans["control"] # << >>
    /\ chans' = [chans EXCEPT !["control"] = Tail(@)]
    /\ IF Head(chans["control"]) = "interrupt"
       THEN Acquire(WriterTask, "transport", "write", "-")
       ELSE UNCHANGED <<lock_holder, lock_queue, task_at>>
    /\ UNCHANGED reader_locks

\* transport_guard.write(..).await returns, the guard is dropped; the loop
\* is left when the write failed
WriterWrite(ok) ==
    /\ LocksOnly
    /\ task_at[WriterTask].pc = "write"
    /\ Release(WriterTask, "transport", IF ok THEN "recv" ELSE "done", "-")
    /\ UNCHANGED <<reader_locks, chans>>

\* hook_handler_task / permission_handler_task: an event is received, the
\* task goes for the lock of its manager
HandlerRecv(task) ==
    /\ LocksOnly
    /\ task_at[task].pc = "recv"
    /\ chans[EventsOf(task)] # << >>
    /\ chans' = [chans EXCEPT ![EventsOf(task)] = Tail(@)]
    /\ Acquire(task, ManagerOf(task), "invoke", "-")
    /\ UNCHANGED reader_locks

\* manager_guard.invoke(..).await / can_use_tool(..).await returns: the guard
\* is dropped, in the Ok arm by drop(manager_guard), in the Err arm at the
\* end of the match
HandlerInvokedMut(task, ok) ==
    /\ LocksOnly
    /\ task_at[task].pc = "invoke"
    /\ lock_holder[ManagerOf(task)] = task
    /\ task_at' = [task_at EXCEPT ![task] = At(IF ok THEN "lock_protocol" ELSE "recv", "-")]
    /\ UNCHANGED <<lock_holder, lock_queue, reader_locks, chans>>
HandlerInvoked(task, ok) ==
    /\ LocksOnly
    /\ task_at[task].pc = "invoke"
    /\ Release(task, ManagerOf(task), IF ok THEN "lock_protocol" ELSE "recv", "-")
    /\ UNCHANGED <<reader_locks, chans>>

\* ... protocol.lock().await
HandlerLockProtocol(task) ==
    /\ LocksOnly
    /\ task_at[task].pc = "lock_protocol"
    /\ Acquire(task, "protocol", "create_response", "-")
    /\ UNCHANGED <<reader_locks, chans>>

\* ... create_hook_response / create_permission_response, drop(protocol_guard)
HandlerCreateResponse(task) ==
    /\ LocksOnly
    /\ task_at[task].pc = "create_response"
    /\ Release(task, "protocol", "recv", "-")
    /\ UNCHANGED <<reader_locks, chans>>

\* The methods of the client that take a lock
TransportMethods == {"send_message", "close"}
ProtocolMethods == {"interrupt", "respond_to_hook", "respond_to_permission"}

\* send_message / close: self.transport.lock().await;
\* interrupt / respond_to_hook / respond_to_permission:
\* self.protocol.lock().await
ApiCall(method) ==
    /\ LocksOnly
    /\ task_at[ApiCaller].pc = "idle"
    /\ method \in ProtocolMethods => Len(chans["control"]) < MaxQueued
    /\ Acquire(ApiCaller, IF method \in TransportMethods THEN "transport" ELSE "protocol",
               method, "-")
    /\ UNCHANGED <<reader_locks, chans>>

\* transport.write(..).await or transport.close().await returns, and the
\* guard is dropped with the method's return
ApiTransportReturn ==
    /\ LocksOnly
    /\ task_at[ApiCaller].pc \in TransportMethods
    /\ Release(ApiCaller, "transport", "idle", "-")
    /\ UNCHANGED <<reader_locks, chans>>

\* create_*_request, drop(protocol), control_tx.send(request)
ApiProtocolReturn ==
    /\ LocksOnly
    /\ task_at[ApiCaller].pc \in ProtocolMethods
    /\ Release(ApiCaller, "protocol", "idle", "-")
    /\ chans' = [chans EXCEPT !["control"] =
                     Append(@, IF task_at[ApiCaller].pc = "interrupt" THEN "interrupt"
                               ELSE "response")]
    /\ UNCHANGED reader_locks

\* next_message: self.message_rx.recv().await, which takes no lock; it
\* returns an item, or None once the reader task has ended
next_message ==
    /\ LocksOnly
    /\ task_at[ApiCaller].pc = "idle"
    /\ chans["message"] # << >> \/ task_at[ReaderTask].pc = "done"
    /\ chans' = [chans EXCEPT !["message"] = IF @ = << >> THEN @ ELSE Tail(@)]
    /\ UNCHANGED <<lock_holder, lock_queue, task_at, reader_locks>>

LocksNew ==
    /\ lock_holder = [lock \in Locks |-> Unlocked]
    /\ lock_queue = [lock \in Locks |-> << >>]
    /\ task_at = [task \in LockTasks |->
                     IF task = ReaderTask THEN At("start", "-")
                     ELSE IF task = ApiCaller THEN At("idle", "-")
                     ELSE At("recv", "-")]
    /\ reader_locks = 0
    /\ chans = [c \in {"control", "hook", "permission", "message"} |-> << >>]

LocksNext ==
    \/ ReaderLockTransport
    \/ ReaderReadMessages
    \/ \E ok \in BOOLEAN : ReaderRecv(ok)
    \/ ReaderStreamEnds
    \/ \E item \in StreamItems : ReaderDeserialize(item)
    \/ ReaderHandleResponse
    \/ ReaderDropProtocol
    \/ WriterRecv
    \/ \E ok \in BOOLEAN : WriterWrite(ok)
    \/ \E task \in HandlerTasks : HandlerRecv(task)
    \/ \E task \in HandlerTasks, ok \in BOOLEAN : HandlerInvoked(task, ok)
    \/ \E task \in HandlerTasks : HandlerLockProtocol(task)
    \/ \E task \in HandlerTasks : HandlerCreateResponse(task)
    \/ \E method \in TransportMethods \cup ProtocolMethods : ApiCall(method)
    \/ ApiTransportReturn
    \/ ApiProtocolReturn
    \/ next_message

-----------------------------------------------------------------------------
(* Hook manager and permission manager: hooks/mod.rs, permissions/mod.rs   *)

\* Matchers registered in one hook manager
MaxMatchers == 2
\* Callbacks registered in one hook manager, over all its matchers
MaxCallbacks == 3

\* Option<T>: None and Some(x)
Absent == << >>
Some(x) == <<x>>

\* Tool names and patterns are strings, written as sequences of characters
Read == <<"R", "e", "a", "d">>
Write == <<"W", "r", "i", "t", "e">>
Edit == <<"E", "d", "i", "t">>
Bash == <<"B", "a", "s", "h">>
Star == <<"*">>
Pipe == "|"

\* str::split(sep): the pieces between the separators, empty ones included
RECURSIVE Split(_, _, _)
Split(s, sep, cur) ==
    IF s = << >> THEN <<cur>>
    ELSE IF Head(s) = sep THEN <<cur>> \o Split(Tail(s), sep, << >>)
    ELSE Split(Tail(s), sep, Append(cur, Head(s)))

\* HookManager::matches
matchesMut(matcher, tool_name) ==
    \/ matcher = Absent
    \/ /\ tool_name # Absent
       /\ tool_name[1] \in Range(Split(matcher[1], Pipe, << >>))
matches(matcher, tool_name) ==
    IF matcher = Absent THEN TRUE
    ELSE IF tool_name = Absent THEN FALSE
    ELSE IF matcher[1] = Star THEN TRUE
    ELSE \/ matcher[1] = tool_name[1]
         \/ tool_name[1] \in Range(Split(matcher[1], Pipe, << >>))

\* What a callback does when it is invoked: it returns Err, or a HookOutput
\* with decision = Some(Block), or one with no decision
CallbackResults == {"pass", "block", "error"}

Block == "block"

\* HookOutput::default(); system_message and hook_specific_output are
\* merged like the decision and left out
DefaultOutput == [decision |-> Absent]

OutputOf(hook) == [decision |-> IF hook = "block" THEN Some(Block) ELSE Absent]

\* "Merge hook results"
Merge(output, result) ==
    [decision |-> IF result.decision # Absent THEN result.decision ELSE output.decision]

\* "If decision is Block, stop processing"
StopsProcessingMut(output) == FALSE
StopsProcessing(output) == output.decision = Some(Block)

\* HookManager::invoke from callback j of matcher i on: Ok(output) or Err,
\* and the callbacks invoked, each named by its matcher and its place in it
RECURSIVE InvokeFrom(_, _, _, _, _, _)
InvokeFrom(ms, tool_name, i, j, output, invoked) ==
    LET Merged(merged, now) ==
            IF StopsProcessing(merged)
            THEN [ok |-> TRUE, output |-> merged, invoked |-> now]
            ELSE InvokeFrom(ms, tool_name, i, j + 1, merged, now)
    IN  IF i > Len(ms) THEN [ok |-> TRUE, output |-> output, invoked |-> invoked]
        ELSE IF ~matches(ms[i].matcher, tool_name) \/ j > Len(ms[i].hooks)
        THEN InvokeFrom(ms, tool_name, i + 1, 1, output, invoked)
        ELSE IF ms[i].hooks[j] = "error"
        THEN [ok |-> FALSE, output |-> DefaultOutput, invoked |-> Append(invoked, <<i, j>>)]
        ELSE Merged(Merge(output, OutputOf(ms[i].hooks[j])), Append(invoked, <<i, j>>))

invoke(ms, tool_name) == InvokeFrom(ms, tool_name, 1, 1, DefaultOutput, << >>)

\* The patterns and tool names the hook manager is exercised with
HookPatterns == {Absent, Some(Write \o <<Pipe>> \o Edit), Some(Bash)}
HookToolNames == {Absent, Some(Write), Some(Bash)}

\* Vec<HookCallback> of at most n callbacks
HookLists(n) == UNION {[1..k -> CallbackResults] : k \in 0..n}

RECURSIVE CallbackCount(_)
CallbackCount(ms) ==
    IF ms = << >> THEN 0 ELSE Len(Head(ms).hooks) + CallbackCount(Tail(ms))

NoCall == [op |-> "none"]

\* Only the managers move
ManagerOnly ==
    UNCHANGED <<protoVars, lastOp, chatVars, memVars, transportVars, clientVars, lifeVars,
                envVars, callVars, lockVars>>

\* HookManager::register of a matcher built by HookMatcherBuilder
Register(pattern, hooks) ==
    /\ ManagerOnly
    /\ hook_call = NoCall
    /\ Len(matchers) < MaxMatchers
    /\ matchers' = Append(matchers, [matcher |-> pattern, hooks |-> hooks])
    /\ UNCHANGED <<hook_call, match_call, perm_manager, perm_call>>

\* One HookManager::invoke
Invoke(tool_name) ==
    /\ ManagerOnly
    /\ hook_call' = [op |-> "invoke", tool_name |-> tool_name,
                     result |-> invoke(matchers, tool_name)]
    /\ UNCHANGED <<matchers, match_call, perm_manager, perm_call>>

HookNext ==
    \/ \E pattern \in HookPatterns :
           \E hooks \in HookLists(MaxCallbacks - CallbackCount(matchers)) :
               Register(pattern, hooks)
    \/ \E tool_name \in HookToolNames : Invoke(tool_name)

\* The patterns and names the matcher by itself is exercised with
MatchPatterns ==
    {Star, Write, Bash, Write \o <<Pipe>> \o Edit, Edit \o <<Pipe>> \o Write,
     Write \o <<Pipe>> \o Edit \o <<Pipe>> \o Bash, Write \o <<Pipe>>,
     <<Pipe>> \o Write, << >>, <<Pipe>>, Write \o Edit, Star \o <<Pipe>> \o Write}

MatchNames ==
    {Write, Edit, Bash, Read, Write \o Edit, Write \o <<Pipe>> \o Edit, Star,
     << >>, <<Pipe>>, <<"W">>}

\* One call of HookManager::matches
Matches(matcher, tool_name) ==
    /\ ManagerOnly
    /\ match_call' = [op |-> "matches", matcher |-> matcher, tool_name |-> tool_name,
                      result |-> matches(matcher, tool_name)]
    /\ UNCHANGED <<matchers, hook_call, perm_manager, perm_call>>

MatchNext ==
    \E matcher \in {Absent} \cup {Some(p) : p \in MatchPatterns} :
        \E tool_name \in {Absent} \cup {Some(n) : n \in MatchNames} :
            Matches(matcher, tool_name)

\* ---- PermissionManager ----

ToolNames == {Read, Write, Bash}

\* What a can_use_tool callback answers for a tool
Verdicts == {"allow", "deny", "error"}

Callbacks == [ToolNames -> Verdicts]

\* PermissionResult::Allow with no updated input and no updated
\* permissions, and PermissionResult::Deny
Allow == [ok |-> TRUE, verdict |-> "allow", by |-> "default"]
Deny(why) == [ok |-> TRUE, verdict |-> "deny", by |-> why]

\* The callback's answer: its verdict, or its error
Answer(verdict) ==
    IF verdict = "error" THEN [ok |-> FALSE, verdict |-> "error", by |-> "callback"]
    ELSE [ok |-> TRUE, verdict |-> verdict, by |-> "callback"]

\* PermissionManager::new
NewPermissionManager ==
    [callback |-> Absent, allowed_tools |-> Absent, disallowed_tools |-> {}]

\* PermissionManager::can_use_tool: the result, and whether the callback ran
can_use_toolMut(manager, tool_name) ==
    IF manager.callback # Absent
    THEN [result |-> Answer(manager.callback[1][tool_name]), called |-> TRUE]
    ELSE [result |-> Allow, called |-> FALSE]
can_use_tool(manager, tool_name) ==
    IF tool_name \in manager.disallowed_tools
    THEN [result |-> Deny("disallowed"), called |-> FALSE]
    ELSE IF manager.allowed_tools # Absent /\ tool_name \notin manager.allowed_tools[1]
    THEN [result |-> Deny("not_allowed"), called |-> FALSE]
    ELSE IF manager.callback # Absent
    THEN [result |-> Answer(manager.callback[1][tool_name]), called |-> TRUE]
    ELSE [result |-> Allow, called |-> FALSE]

\* set_callback, set_allowed_tools, set_disallowed_tools
SetCallback(callback) ==
    /\ ManagerOnly
    /\ perm_call = NoCall
    /\ perm_manager' = [perm_manager EXCEPT !.callback = Some(callback)]
    /\ UNCHANGED <<matchers, hook_call, match_call, perm_call>>

SetAllowedTools(tools) ==
    /\ ManagerOnly
    /\ perm_call = NoCall
    /\ perm_manager' = [perm_manager EXCEPT !.allowed_tools = tools]
    /\ UNCHANGED <<matchers, hook_call, match_call, perm_call>>

SetDisallowedTools(tools) ==
    /\ ManagerOnly
    /\ perm_call = NoCall
    /\ perm_manager' = [perm_manager EXCEPT !.disallowed_tools = tools]
    /\ UNCHANGED <<matchers, hook_call, match_call, perm_call>>

\* One PermissionManager::can_use_tool
CanUseTool(tool_name) ==
    /\ ManagerOnly
    /\ perm_call' = [op |-> "can_use_tool", tool_name |-> tool_name,
                     result |-> can_use_tool(perm_manager, tool_name).result,
                     called |-> can_use_tool(perm_manager, tool_name).called]
    /\ UNCHANGED <<matchers, hook_call, match_call, perm_manager>>

PermissionNext ==
    \/ \E callback \in Callbacks : SetCallback(callback)
    \/ \E tools \in {Absent} \cup {Some(s) : s \in SUBSET ToolNames} : SetAllowedTools(tools)
    \/ \E tools \in SUBSET ToolNames : SetDisallowedTools(tools)
    \/ \E tool_name \in ToolNames : CanUseTool(tool_name)

\* HookManager::new and PermissionManager::new; no call made yet
ManagersNew ==
    /\ matchers = << >>
    /\ hook_call = NoCall
    /\ match_call = NoCall
    /\ perm_manager = NewPermissionManager
    /\ perm_call = NoCall
    /\ text_call = NoCall
    /\ mcp_call = NoCall
    /\ LocksNew

-----------------------------------------------------------------------------
(* The text of a memory file: what view, str_replace and insert do with    *)
(* the content they have read.  memory_tool.rs                             *)

\* Characters in the content of a file
MaxText == 3
\* Characters in old_str, new_str and the text to insert
MaxPattern == 2
\* Line numbers and range ends go from 0 to MaxLineNo
MaxLineNo == 5

\* A string is a sequence of characters; NL is the line feed and Wide a
\* character of two bytes in UTF-8, all the others taking one
NL == "\n"
Wide == "é"
CharWidth(c) == IF c = Wide THEN 2 ELSE 1

\* str::len: the length in bytes
RECURSIVE ByteLen(_)
ByteLen(s) == IF s = << >> THEN 0 ELSE CharWidth(Head(s)) + ByteLen(Tail(s))

\* str::is_char_boundary
IsCharBoundary(s, n) == \E k \in 0..Len(s) : ByteLen(SubSeq(s, 1, k)) = n

\* str::lines: the pieces between line feeds, without a last empty piece
Lines(content) ==
    LET Unless(pieces) ==
            IF pieces[Len(pieces)] = << >> THEN SubSeq(pieces, 1, Len(pieces) - 1)
            ELSE pieces
    IN  Unless(Split(content, NL, << >>))

\* [&str]::join("\n")
RECURSIVE JoinLines(_)
JoinLines(ls) ==
    IF ls = << >> THEN << >>
    ELSE IF Len(ls) = 1 THEN ls[1]
    ELSE ls[1] \o <<NL>> \o JoinLines(Tail(ls))

\* str::matches(pat).count(): the matches found from left to right, each
\* search going on after the end of the match before; the empty pattern
\* matches at every character boundary
RECURSIVE MatchCount(_, _)
MatchCount(s, pat) ==
    IF pat = << >> THEN Len(s) + 1
    ELSE IF Len(s) < Len(pat) THEN 0
    ELSE IF SubSeq(s, 1, Len(pat)) = pat
    THEN 1 + MatchCount(SubSeq(s, Len(pat) + 1, Len(s)), pat)
    ELSE MatchCount(Tail(s), pat)

\* str::replace: every such match is replaced
RECURSIVE Replace(_, _, _)
Replace(s, from, to) ==
    IF from = << >>
    THEN IF s = << >> THEN to ELSE to \o <<Head(s)>> \o Replace(Tail(s), from, to)
    ELSE IF Len(s) < Len(from) THEN s
    ELSE IF SubSeq(s, 1, Len(from)) = from
    THEN to \o Replace(SubSeq(s, Len(from) + 1, Len(s)), from, to)
    ELSE <<Head(s)>> \o Replace(Tail(s), from, to)

\* u32::saturating_sub
SaturatingSub(a, b) == IF a >= b THEN a - b ELSE 0

Min(a, b) == IF a <= b THEN a ELSE b

\* MemoryToolResult::success and MemoryToolResult::error, with the content
\* the file has afterwards; a call that panics returns nothing
TextSuccess(output, content) ==
    [returned |-> TRUE, success |-> TRUE, error |-> Absent, output |-> output,
     content |-> content]
TextError(message, content) ==
    [returned |-> TRUE, success |-> FALSE, error |-> Some(message), output |-> << >>,
     content |-> content]
TextPanic(content) ==
    [returned |-> FALSE, success |-> FALSE, error |-> Absent, output |-> << >>,
     content |-> content]

\* The error message for a string not found shows the first bytes of it
PreviewBytes == 50

\* &old_str[..50] panics when byte 50 is inside a character
PreviewPanics(old_str) ==
    ByteLen(old_str) > PreviewBytes /\ ~IsCharBoundary(old_str, PreviewBytes)

\* str_replace, once the file is read
StrReplaceText(content, old_str, new_str) ==
    LET Counted(count) ==
            IF count = 0
            THEN IF PreviewPanics(old_str) THEN TextPanic(content)
                 ELSE TextError("not_found", content)
            ELSE IF count > 1 THEN TextError("found_many", content)
            ELSE TextSuccess(<<"replaced">>, Replace(content, old_str, new_str))
    IN  Counted(MatchCount(content, old_str))

\* insert, once the file is read
InsertText(content, insert_line, new_str) ==
    LET Spliced(lines, insert_idx) ==
            IF insert_idx > Len(lines) THEN TextError("beyond_length", content)
            ELSE TextSuccess(<<"inserted">>,
                     JoinLines(SubSeq(lines, 1, insert_idx) \o Lines(new_str)
                               \o SubSeq(lines, insert_idx + 1, Len(lines))))
    IN  Spliced(Lines(content), SaturatingSub(insert_line, 1))

\* What view shows for a file without lines to show
EmptyFile == <<"(empty file)">>

\* read_file_with_lines, once the file is read.  end - start is computed
\* in usize: when end < start the subtraction panics in a build with
\* overflow checks and wraps in a build without, to a count beyond any
\* number of lines, so that take() takes all the lines left
read_file_with_lines(content, view_range, overflow_checks) ==
    LET Shown(output) == IF output = << >> THEN EmptyFile ELSE output
        Numbered(lines, start, count) ==
            Shown([k \in 1..Min(count, SaturatingSub(Len(lines), start)) |->
                      <<start + k, lines[start + k]>>])
        Ranged(lines, start, end) ==
            IF end >= start
            THEN TextSuccess(Numbered(lines, start, end - start), content)
            ELSE IF overflow_checks THEN TextPanic(content)
            ELSE TextSuccess(Numbered(lines, start, Len(lines)), content)
        OfLines(lines) ==
            IF view_range = Absent THEN Ranged(lines, 0, Len(lines))
            ELSE Ranged(lines, SaturatingSub(view_range[1][1], 1),
                        Min(view_range[1][2], Len(lines)))
    IN  OfLines(Lines(content))

\* The strings the functions are exercised with
RECURSIVE Strings(_, _)
Strings(chars, n) ==
    IF n = 0 THEN {<< >>}
    ELSE LET Shorter == Strings(chars, n - 1)
         IN  Shorter \cup {Append(s, c) : s \in Shorter, c \in chars}

\* Strings longer than the preview: of one-byte characters, and with a
\* two-byte character across byte 50
LongPlain == [i \in 1..(PreviewBytes + 1) |-> "a"]
LongWide == [i \in 1..PreviewBytes |-> IF i = PreviewBytes THEN Wide ELSE "a"]

FileTexts == Strings({"a", "b", NL}, MaxText)
Patterns == Strings({"a", "b"}, MaxPattern) \cup {LongPlain, LongWide}
Replacements == {<< >>, <<"b">>, <<"a", "a">>}
Insertions == Strings({"c", NL}, MaxPattern)
LineNumbers == 0..MaxLineNo
ViewRanges == {Absent} \cup {Some(<<s, e>>) : s \in LineNumbers, e \in LineNumbers}

\* Only the record of the call on a text moves
TextOnly ==
    UNCHANGED <<protoVars, lastOp, chatVars, memVars, transportVars, clientVars,
                lifeVars, managerVars, envVars, mcp_call, lockVars>>

\* One str_replace on a file with this content
TextStrReplace(content, old_str, new_str) ==
    /\ TextOnly
    /\ text_call = NoCall
    /\ text_call' = [op |-> "str_replace", content |-> content,
                     args |-> <<old_str, new_str>>,
                     result |-> StrReplaceText(content, old_str, new_str)]

\* One insert on a file with this content
TextInsert(content, insert_line, new_str) ==
    /\ TextOnly
    /\ text_call = NoCall
    /\ text_call' = [op |-> "insert", content |-> content,
                     args |-> <<insert_line, new_str>>,
                     result |-> InsertText(content, insert_line, new_str)]

\* One view of a file with this content, in a build with or without
\* overflow checks
TextView(content, view_range, overflow_checks) ==
    /\ TextOnly
    /\ text_call = NoCall
    /\ text_call' = [op |-> "view", content |-> content,
                     args |-> <<view_range, overflow_checks>>,
                     result |-> read_file_with_lines(content, view_range,
                                                     overflow_checks)]

\* One call is looked at: after it nothing more happens
TextNext ==
    /\ text_call = NoCall
    /\ \/ \E content \in FileTexts, old_str \in Patterns, new_str \in Replacements :
              TextStrReplace(content, old_str, new_str)
       \/ \E content \in FileTexts, insert_line \in LineNumbers, new_str \in Insertions :
              TextInsert(content, insert_line, new_str)
       \/ \E content \in FileTexts, view_range \in ViewRanges,
             overflow_checks \in BOOLEAN :
              TextView(content, view_range, overflow_checks)

-----------------------------------------------------------------------------
(* In-process MCP server: mcp/server.rs, mcp/protocol.rs, mcp/tool.rs      *)

\* serde_json::Value, as far as handle_request looks at it
JsonNull == <<"null">>
JsonNumber(n) == <<"number", n>>
JsonString(s) == <<"string", s>>
JsonArray == <<"array">>
JsonObject(name, arguments) == <<"object", name, arguments>>

\* value["key"]: Null for a missing key and for a value that is no object
JsonIndex(value, key) ==
    IF value[1] # "object" THEN JsonNull
    ELSE IF key = "name" THEN value[2]
    ELSE IF key = "arguments" THEN value[3]
    ELSE JsonNull

\* Value::as_str
as_str(value) == IF value[1] = "string" THEN Some(value[2]) ELSE Absent

\* McpError constructors
method_not_found(method) ==
    [code |-> -32601, message |-> <<"Method not found", method>>, data |-> Absent]
invalid_params(message) ==
    [code |-> -32602, message |-> <<message>>, data |-> Absent]
internal_error(message) ==
    [code |-> -32603, message |-> message, data |-> Absent]
tool_not_found(tool_name) ==
    [code |-> -32001, message |-> <<"Tool not found", tool_name>>, data |-> Absent]

\* JsonRpcResponse::success and JsonRpcResponse::error
JsonRpcSuccess(id, result) == [id |-> id, result |-> Some(result), error |-> Absent]
JsonRpcError(id, error) == [id |-> id, result |-> Absent, error |-> Some(error)]

\* The handlers tools are registered with: one answers with its input, one
\* always fails, one fails when it is given no arguments
ToolHandlers == {"echo", "fail", "strict"}

ToolOk(result) == [ok |-> TRUE, value |-> result]
ToolErr(e) == [ok |-> FALSE, value |-> e]

\* ToolResult::text, serialized: content and no is_error
ToolResultText(text) == <<"content", text>>

\* SdkMcpTool::invoke: the handler's future, awaited
tool_invoke(handler, arguments) ==
    IF handler = "fail" THEN ToolErr("failed")
    ELSE IF handler = "strict" /\ arguments = JsonNull THEN ToolErr("no_arguments")
    ELSE ToolOk(ToolResultText(arguments))

\* handle_tools_list: the registered tools, in no particular order
handle_tools_list(tools, request_id) ==
    JsonRpcSuccess(request_id, <<"tools", DOMAIN tools>>)

handle_tools_callMut(tools, request_id, params) ==
    LET Invoked(outcome) ==
            IF outcome.ok THEN JsonRpcSuccess(request_id, outcome.value)
            ELSE JsonRpcError(request_id,
                     internal_error(<<"Tool execution failed", outcome.value>>))
        Named(tool_name) ==
            IF tool_name = Absent
            THEN JsonRpcError(request_id, invalid_params("Missing tool name in parameters"))
            ELSE IF tool_name[1] \notin DOMAIN tools
            THEN JsonRpcError(request_id, internal_error(<<"Tool not found", tool_name[1]>>))
            ELSE Invoked(tool_invoke(tools[tool_name[1]], JsonIndex(params[1], "arguments")))
    IN  IF params = Absent
        THEN JsonRpcError(request_id, invalid_params("tools/call requires parameters"))
        ELSE Named(as_str(JsonIndex(params[1], "name")))

\* handle_tools_call.  A ToolResult holds strings and a flag only, so
\* serde_json::to_value of it does not fail
handle_tools_call(tools, request_id, params) ==
    LET Invoked(outcome) ==
            IF outcome.ok THEN JsonRpcSuccess(request_id, outcome.value)
            ELSE JsonRpcError(request_id,
                     internal_error(<<"Tool execution failed", outcome.value>>))
        Named(tool_name) ==
            IF tool_name = Absent
            THEN JsonRpcError(request_id, invalid_params("Missing tool name in parameters"))
            ELSE IF tool_name[1] \notin DOMAIN tools
            THEN JsonRpcError(request_id, tool_not_found(tool_name[1]))
            ELSE Invoked(tool_invoke(tools[tool_name[1]], JsonIndex(params[1], "arguments")))
    IN  IF params = Absent
        THEN JsonRpcError(request_id, invalid_params("tools/call requires parameters"))
        ELSE Named(as_str(JsonIndex(params[1], "name")))

\* request.id.clone().unwrap_or(null)
RequestId(request) == IF request.id = Absent THEN JsonNull ELSE request.id[1]

handle_request(tools, request) ==
    IF request.method = "tools/list" THEN handle_tools_list(tools, RequestId(request))
    ELSE IF request.method = "tools/call"
    THEN handle_tools_call(tools, RequestId(request), request.params)
    ELSE JsonRpcError(RequestId(request), method_not_found(request.method))

\* The servers built with SdkMcpServer::new(..).tool(..): a map from tool
\* names to tools
McpToolNames == {"greet", "add"}
McpServers == UNION {[names -> ToolHandlers] : names \in SUBSET McpToolNames}

\* The requests a server is given
McpIds == {Absent, Some(JsonNumber(1)), Some(JsonString("r"))}
McpMethods == {"tools/list", "tools/call", "unknown/method"}
McpNames == {JsonNull, JsonNumber(1)} \cup {JsonString(n) : n \in McpToolNames \cup {"nonexistent"}}
McpArguments == {JsonNull, JsonString("x")}
McpParams ==
    {Absent, Some(JsonArray)}
        \cup {Some(JsonObject(name, arguments)) : name \in McpNames, arguments \in McpArguments}
JsonRpcRequests == [id : McpIds, method : McpMethods, params : McpParams]

\* Only the record of the request handled moves
McpOnly ==
    UNCHANGED <<protoVars, lastOp, chatVars, memVars, transportVars, clientVars,
                lifeVars, managerVars, envVars, text_call, lockVars>>

\* One request handled by one server
McpHandleRequest(tools, request) ==
    /\ McpOnly
    /\ mcp_call' = [op |-> "handle_request", tools |-> tools, request |-> request,
                    response |-> handle_request(tools, request)]

McpNext ==
    /\ mcp_call = NoCall
    /\ \E tools \in McpServers, request \in JsonRpcRequests :
           McpHandleRequest(tools, request)

-----------------------------------------------------------------------------
(* Subprocess transport and bidirectional client:                          *)
(* transport/subprocess.rs, client/mod.rs                                  *)

\* Lines written to the child's stdin in one run
MaxLinesSent == 2
\* Pieces in which write_all hands one line to the pipe
LineChunks == 2
\* Requests waiting on the control channel
MaxControlQueue == 1
\* Lines read from the child's stdout in one run
MaxLines == 2
\* max_buffer_size, in units of one short line
MaxBufferSize == 2
\* Largest exit code of the child
MaxExitCode == 1

Nobody == "nobody"

\* send_message callers and the control writer task: all that write
Callers == {"caller_1", "caller_2"}
ControlWriter == "control_writer_task"
Writers == Callers \cup {ControlWriter}

\* ExitStatus: a code, or none when a signal ended the child
Signalled == -1
ExitStatuses == (0..MaxExitCode) \cup {Signalled}

NotSpawned == [state |-> "not_spawned", status |-> 0]
Running == [state |-> "running", status |-> 0]
Exited(status) == [state |-> "exited", status |-> status]
Killed == [state |-> "killed", status |-> Signalled]

Terminated(c) == c.state \in {"exited", "killed"}

\* Only the transport and its tasks move in a step of the client
ClientOnly ==
    UNCHANGED <<chatVars, memVars, lastOp, lifeVars, managerVars, envVars, callVars, lockVars>>

\* Only the transport, its child and the child's environment move
SpawnOnly ==
    UNCHANGED <<chatVars, memVars, lastOp, lifeVars, managerVars, parent_env,
                options_env, cwd, callVars, lockVars>>

ProtoSame ==
    UNCHANGED <<next_request_id, initialized, pending_requests, slots, requests,
                generated, hook_tx, permission_tx, hook_chan, permission_chan>>

WriteSame ==
    UNCHANGED <<transport_lock, writer_pc, writer_line, writer_part, writes,
                stdin_bytes, control_chan>>

ReadSame ==
    UNCHANGED <<json_buffer, loop_left, lines_read, arrived, msg_stream, reader_pc,
                message_chan, delivered>>

\* ---- items on the channels ----

\* Ok(value) on the transport's channel, Ok(message) on the client's: what
\* the line was and its position in the order of arrival
OkItem(what, seq) == [ok |-> TRUE, what |-> what, n |-> seq]
\* Err(e): the error kind, and the exit code of a process error or the
\* line of a decode or parse error or of an envelope that could not be
\* passed on (0 for a bad init response)
ErrItem(what, code) == [ok |-> FALSE, what |-> what, n |-> code]
\* next_message returned None
NoneItem == [ok |-> FALSE, what |-> "none", n |-> 0]

\* UnboundedSender::send: the item joins the end of the queue
ChanSendMut(chan, item) == <<item>> \o chan
ChanSend(chan, item) == Append(chan, item)

\* ---- SubprocessTransport::connect ----

\* Variables set in the parent's environment, and variables set by the caller
MaxEnvVars == 1

\* "Dangerous environment variables that should not be passed to subprocess"
DANGEROUS_ENV_VARS ==
    {"LD_PRELOAD", "LD_LIBRARY_PATH", "DYLD_INSERT_LIBRARIES", "DYLD_LIBRARY_PATH",
     "PATH", "NODE_OPTIONS", "PYTHONPATH", "PERL5LIB", "RUBYLIB"}

\* An environment maps names to values; a value is told by who set it
NoEnv == << >>
EnvOf(names, value) == [k \in names |-> value]

\* HashMap::insert
EnvInsert(env, key, value) ==
    [k \in DOMAIN env \cup {key} |-> IF k = key THEN value ELSE env[k]]

\* The caller's variables that connect takes over
IsPassedOn(key) == key \notin DANGEROUS_ENV_VARS

\* connect: process_env is the parent's environment, with the caller's
\* variables that are not dangerous put over it, then the two variables of
\* the SDK, then PWD when a working directory is set
ProcessEnv(parent, caller, dir) ==
    LET WithCaller ==
            [k \in DOMAIN parent \cup {c \in DOMAIN caller : IsPassedOn(c)} |->
                IF k \in DOMAIN caller /\ IsPassedOn(k) THEN caller[k] ELSE parent[k]]
        WithSdk ==
            EnvInsert(EnvInsert(WithCaller, "CLAUDE_CODE_ENTRYPOINT", "sdk"),
                      "CLAUDE_AGENT_SDK_VERSION", "sdk")
    IN  IF dir # Absent THEN EnvInsert(WithSdk, "PWD", "sdk") ELSE WithSdk

\* Command::envs and spawn: the child inherits the parent's environment,
\* with the variables given to envs put over it
SpawnEnv(parent, given) ==
    [k \in DOMAIN parent \cup DOMAIN given |->
        IF k \in DOMAIN given THEN given[k] ELSE parent[k]]

\* Called once per transport, as ClaudeSDKClient::new and query do
Connect ==
    /\ SpawnOnly /\ ProtoSame /\ WriteSame /\ ReadSame
    /\ child = NotSpawned
    /\ ~closed
    /\ child' = Running
    /\ child_env' = SpawnEnv(parent_env, ProcessEnv(parent_env, options_env, cwd))
    /\ stdin' = "open"
    /\ stdout' = "open"
    /\ process' = "transport"
    /\ ready' = TRUE
    /\ UNCHANGED <<reader_task, closed>>

\* The child ends by itself
ChildExit(status) ==
    /\ ClientOnly /\ ProtoSame /\ WriteSame /\ ReadSame
    /\ child = Running
    /\ child' = Exited(status)
    /\ UNCHANGED <<ready, stdin, stdout, process, reader_task, closed>>

\* ---- SubprocessTransport::write, under the transport lock ----

\* write refuses when the transport is not ready or has no stdin
WriteRefusedMut(is_ready, the_stdin) == FALSE
WriteRefused(is_ready, the_stdin) == ~is_ready \/ the_stdin = "none"

\* A tokio Mutex is free for one task at a time
LockFreeMut(holder) == TRUE
LockFree(holder) == holder = Nobody

\* When, in the life of the transport, a write is called
Phase ==
    IF closed THEN "after_close"
    ELSE IF child = NotSpawned THEN "before_connect"
    ELSE "connected"

\* The writer takes the lock and calls write: refused at once, or the
\* first piece is about to go out
BeginWrite(w) ==
    /\ LockFree(transport_lock)
    /\ Len(writes) < MaxLinesSent
    /\ IF WriteRefused(ready, stdin)
          THEN /\ writes' = Append(writes, [by |-> w, phase |-> Phase,
                                            result |-> "transport_error"])
               /\ writer_pc' = [writer_pc EXCEPT ![w] =
                                   IF w = ControlWriter THEN "stopped" ELSE "idle"]
               /\ UNCHANGED <<transport_lock, writer_line, writer_part>>
          ELSE /\ writes' = Append(writes, [by |-> w, phase |-> Phase,
                                            result |-> "pending"])
               /\ transport_lock' = w
               /\ writer_pc' = [writer_pc EXCEPT ![w] = "writing"]
               /\ writer_line' = [writer_line EXCEPT ![w] = Len(writes) + 1]
               /\ writer_part' = [writer_part EXCEPT ![w] = 1]
    /\ UNCHANGED stdin_bytes

\* ClaudeSDKClient::send_message
SendMessage(c) ==
    /\ ClientOnly /\ ProtoSame /\ ReadSame
    /\ client_life = "alive"
    /\ writer_pc[c] = "idle"
    /\ BeginWrite(c)
    /\ UNCHANGED <<ready, stdin, stdout, process, reader_task, child, closed,
                   control_chan>>

\* ClaudeSDKClient::interrupt / respond_to_hook / respond_to_permission:
\* create the request and put it on the control channel
SendControl(method) ==
    /\ ClientOnly /\ ReadSame
    /\ client_life = "alive"
    /\ Len(control_chan) < MaxControlQueue
    /\ Len(generated) < MaxLinesSent
    /\ generated' = Append(generated, next_id)
    /\ next_request_id' = FetchAdd(next_request_id)
    /\ control_chan' = IF writer_pc[ControlWriter] = "stopped"
                       THEN control_chan
                       ELSE Append(control_chan, method)
    /\ UNCHANGED <<initialized, pending_requests, slots, requests, hook_tx,
                   permission_tx, hook_chan, permission_chan>>
    /\ UNCHANGED <<transport_lock, writer_pc, writer_line, writer_part, writes,
                   stdin_bytes>>
    /\ UNCHANGED <<ready, stdin, stdout, process, reader_task, child, closed>>

\* control_writer_task writes a line for an interrupt and for a
\* send_message request, and skips the other requests
IsWrittenMut(method) == method = "send_message"
IsWritten(method) == method \in {"interrupt", "send_message"}

\* control_writer_task: take a request; interrupt and send_message are
\* written, the others skipped; a failed write ends the task
ControlWriterTask ==
    /\ ClientOnly /\ ProtoSame /\ ReadSame
    /\ writer_pc[ControlWriter] = "idle"
    /\ control_chan # << >>
    /\ control_chan' = Tail(control_chan)
    /\ IF IsWritten(Head(control_chan))
          THEN BeginWrite(ControlWriter)
          ELSE UNCHANGED <<transport_lock, writer_pc, writer_line, writer_part,
                           writes, stdin_bytes>>
    /\ UNCHANGED <<ready, stdin, stdout, process, reader_task, child, closed>>

\* write_all and flush: one more piece of the line goes to the pipe, or the
\* pipe is broken because the child is gone; the lock is held to the end
WriteChunk(w) ==
    /\ ClientOnly /\ ProtoSame /\ ReadSame
    /\ writer_pc[w] = "writing"
    /\ IF Terminated(child)
          THEN /\ writes' = [writes EXCEPT ![writer_line[w]].result = "transport_error"]
               /\ writer_pc' = [writer_pc EXCEPT ![w] =
                                   IF w = ControlWriter THEN "stopped" ELSE "idle"]
               /\ transport_lock' = Nobody
               /\ UNCHANGED <<stdin_bytes, writer_part>>
          ELSE /\ stdin_bytes' = Append(stdin_bytes, <<writer_line[w], writer_part[w]>>)
               /\ IF writer_part[w] = LineChunks
                     THEN /\ writes' = [writes EXCEPT ![writer_line[w]].result = "ok"]
                          /\ writer_pc' = [writer_pc EXCEPT ![w] = "idle"]
                          /\ transport_lock' = Nobody
                          /\ UNCHANGED writer_part
                     ELSE /\ writer_part' = [writer_part EXCEPT ![w] = @ + 1]
                          /\ UNCHANGED <<writes, writer_pc, transport_lock>>
    /\ UNCHANGED <<writer_line, control_chan>>
    /\ UNCHANGED <<ready, stdin, stdout, process, reader_task, child, closed>>

\* ---- SubprocessTransport::read_messages and its reader task ----

\* The lines the child prints.  A value is a complete JSON text on one
\* line: a data message, JSON that is neither a message nor a control
\* envelope, or a control envelope (response, hook, permission, request or
\* init, init response with a good or bad protocol version).  "open" and
\* "close" are the two halves of a data message printed on two lines,
\* "long" is a line longer than max_buffer_size, "empty" a blank line.
ControlKinds == {"response", "hook", "permission", "request", "init_response",
                 "init_response_bad"}
ValueKinds == {"data", "not_message"} \cup ControlKinds
LineKinds == ValueKinds \cup {"open", "close", "long", "empty"}

\* String::len of the buffer
RECURSIVE BufferLen(_)
BufferLen(buffer) ==
    IF buffer = << >> THEN 0
    ELSE (IF Head(buffer) = "long" THEN MaxBufferSize + 1 ELSE 1) + BufferLen(Tail(buffer))

\* serde_json::from_str on the accumulated buffer: the value, if it parses
Parses(buffer) ==
    \/ Len(buffer) = 1 /\ buffer[1] \in ValueKinds
    \/ buffer = <<"open", "close">>

Parsed(buffer) == IF Len(buffer) = 1 THEN buffer[1] ELSE "data"

\* The line completes a value that is a data message
IsDataMessage(buffer, kind) ==
    /\ kind # "empty"
    /\ BufferLen(Append(buffer, kind)) <= MaxBufferSize
    /\ Parses(Append(buffer, kind))
    /\ Parsed(Append(buffer, kind)) = "data"

\* The receiver of the transport's channel is alive until the client's
\* reader task stops
ReceiverAlive == reader_pc # "stopped"

\* tx.send: the item is queued unless the receiver is gone
TxSend(item) == IF ReceiverAlive THEN ChanSend(msg_stream, item) ELSE msg_stream

\* read_messages: stdout and the child handle move into a new reader task
ReadMessages ==
    /\ ClientOnly /\ ProtoSame /\ WriteSame
    /\ reader_task = "none"
    /\ IF stdout = "none"
          THEN /\ msg_stream' = TxSend(ErrItem("connection", 0))
               /\ reader_task' = "finished"
               /\ UNCHANGED <<stdout, process>>
          ELSE /\ reader_task' = "reading"
               /\ stdout' = "none"
               /\ process' = IF process = "transport" THEN "reader" ELSE process
               /\ UNCHANGED msg_stream
    /\ UNCHANGED <<json_buffer, loop_left, lines_read, arrived, reader_pc, message_chan,
                   delivered>>
    /\ UNCHANGED <<ready, stdin, child, closed>>

\* One pass of the read loop on a line the child printed
ReadLineMut(kind) ==
    /\ ClientOnly /\ ProtoSame /\ WriteSame
    /\ reader_task = "reading"
    /\ child = Running
    /\ lines_read < MaxLines
    /\ lines_read' = lines_read + 1
    /\ arrived' = IF IsDataMessage(json_buffer, kind) THEN Append(arrived, lines_read + 1)
                   ELSE arrived
    /\ LET buffer == Append(json_buffer, kind) IN
       IF kind = "empty"
          THEN UNCHANGED <<json_buffer, msg_stream, reader_task, loop_left>>
       ELSE IF BufferLen(buffer) > MaxBufferSize
          THEN /\ msg_stream' = TxSend(ErrItem("json_decode", lines_read + 1))
               /\ json_buffer' = buffer
               /\ UNCHANGED <<reader_task, loop_left>>
       ELSE IF Parses(buffer)
          THEN /\ json_buffer' = << >>
               /\ msg_stream' = TxSend(OkItem(Parsed(buffer), lines_read + 1))
               /\ reader_task' = IF ReceiverAlive THEN "reading" ELSE "waiting"
               /\ loop_left' = IF ReceiverAlive THEN "no" ELSE "receiver_gone"
       ELSE /\ json_buffer' = buffer
            /\ UNCHANGED <<msg_stream, reader_task, loop_left>>
    /\ UNCHANGED <<reader_pc, message_chan, delivered>>
    /\ UNCHANGED <<ready, stdin, stdout, process, child, closed>>
ReadLine(kind) ==
    /\ ClientOnly /\ ProtoSame /\ WriteSame
    /\ reader_task = "reading"
    /\ child = Running
    /\ lines_read < MaxLines
    /\ lines_read' = lines_read + 1
    /\ arrived' = IF IsDataMessage(json_buffer, kind) THEN Append(arrived, lines_read + 1)
                   ELSE arrived
    /\ LET buffer == Append(json_buffer, kind) IN
       IF kind = "empty"
          THEN UNCHANGED <<json_buffer, msg_stream, reader_task, loop_left>>
       ELSE IF BufferLen(buffer) > MaxBufferSize
          THEN /\ msg_stream' = TxSend(ErrItem("json_decode", lines_read + 1))
               /\ json_buffer' = << >>
               /\ UNCHANGED <<reader_task, loop_left>>
       ELSE IF Parses(buffer)
          THEN /\ json_buffer' = << >>
               /\ msg_stream' = TxSend(OkItem(Parsed(buffer), lines_read + 1))
               /\ reader_task' = IF ReceiverAlive THEN "reading" ELSE "waiting"
               /\ loop_left' = IF ReceiverAlive THEN "no" ELSE "receiver_gone"
       ELSE /\ json_buffer' = buffer
            /\ UNCHANGED <<msg_stream, reader_task, loop_left>>
    /\ UNCHANGED <<reader_pc, message_chan, delivered>>
    /\ UNCHANGED <<ready, stdin, stdout, process, child, closed>>

\* read_line fails, or no line comes for 300 seconds: one error, and the
\* loop is left
ReadFails(error) ==
    /\ ClientOnly /\ ProtoSame /\ WriteSame
    /\ reader_task = "reading"
    /\ child = Running
    /\ msg_stream' = TxSend(ErrItem(error, 0))
    /\ reader_task' = "waiting"
    /\ loop_left' = "error"
    /\ UNCHANGED <<json_buffer, lines_read, arrived, reader_pc, message_chan, delivered>>
    /\ UNCHANGED <<ready, stdin, stdout, process, child, closed>>

\* End of stream: the child is gone and its output has been read
ReadEof ==
    /\ ClientOnly /\ ProtoSame /\ WriteSame
    /\ reader_task = "reading"
    /\ Terminated(child)
    /\ reader_task' = "waiting"
    /\ loop_left' = "eof"
    /\ UNCHANGED <<json_buffer, lines_read, arrived, msg_stream, reader_pc, message_chan,
                   delivered>>
    /\ UNCHANGED <<ready, stdin, stdout, process, child, closed>>

\* After the loop: wait for the child; an exit status with a code other
\* than zero gives a process error; then the task ends and the sender of
\* the channel is dropped
ProcessError(c) ==
    IF c.state = "exited" /\ c.status # 0 /\ c.status # Signalled
    THEN <<ErrItem("process", c.status)>>
    ELSE << >>

WaitChild ==
    /\ ClientOnly /\ ProtoSame /\ WriteSame
    /\ reader_task = "waiting"
    /\ process = "reader" => Terminated(child)
    /\ reader_task' = "finished"
    /\ IF process = "reader"
          THEN /\ process' = "waited"
               /\ msg_stream' = IF ProcessError(child) = << >> THEN msg_stream
                                ELSE TxSend(ProcessError(child)[1])
          ELSE UNCHANGED <<process, msg_stream>>
    /\ UNCHANGED <<json_buffer, loop_left, lines_read, arrived, reader_pc, message_chan,
                   delivered>>
    /\ UNCHANGED <<ready, stdin, stdout, child, closed>>

\* ---- ClaudeSDKClient::message_reader_task ----

\* What the task does with one result from the transport: the items it
\* puts on the message channel, and whether it goes on
Forwarded(item) ==
    IF ~item.ok THEN <<item>>
    ELSE CASE item.what = "data" -> <<item>>
           [] item.what = "not_message" -> <<ErrItem("message_parse", item.n)>>
           [] item.what = "init_response_bad" -> <<ErrItem("protocol", 0)>>
           [] item.what = "hook" ->
                  IF ForwardOk(hook_tx) THEN << >> ELSE <<ErrItem("protocol", item.n)>>
           [] item.what = "permission" ->
                  IF ForwardOk(permission_tx) THEN << >> ELSE <<ErrItem("protocol", item.n)>>
           [] OTHER -> << >>

\* message_tx.send fails once the client, and with it message_rx, is gone
MessageRxAlive == client_life = "alive"

GoesOn(item) ==
    /\ item.ok
    /\ item.what # "init_response_bad"
    /\ item.what = "data" => MessageRxAlive

MessageReaderTask ==
    /\ ClientOnly /\ WriteSame
    /\ reader_pc = "running"
    /\ msg_stream # << >>
    /\ LET item == Head(msg_stream) IN
       /\ msg_stream' = Tail(msg_stream)
       /\ message_chan' = IF MessageRxAlive THEN message_chan \o Forwarded(item)
                          ELSE message_chan
       /\ reader_pc' = IF GoesOn(item) THEN "running" ELSE "stopped"
       /\ initialized' = (initialized \/ (item.ok /\ item.what = "init_response"))
       /\ hook_chan' = IF item.ok /\ item.what = "hook"
                       THEN ForwardEvent(hook_tx, hook_chan, [id |-> <<"h">>])
                       ELSE hook_chan
       /\ permission_chan' = IF item.ok /\ item.what = "permission"
                             THEN ForwardEvent(permission_tx, permission_chan, [id |-> <<"p">>])
                             ELSE permission_chan
    /\ UNCHANGED <<next_request_id, pending_requests, slots, requests, generated,
                   hook_tx, permission_tx>>
    /\ UNCHANGED <<json_buffer, loop_left, lines_read, arrived, delivered>>
    /\ UNCHANGED <<ready, stdin, stdout, process, reader_task, child, closed>>

\* msg_stream.recv() returns None: the transport's task has ended and
\* nothing is left on the channel
MessageReaderEnds ==
    /\ ClientOnly /\ ProtoSame /\ WriteSame
    /\ reader_pc = "running"
    /\ msg_stream = << >>
    /\ reader_task \in {"finished", "aborted"}
    /\ reader_pc' = "stopped"
    /\ UNCHANGED <<json_buffer, loop_left, lines_read, arrived, msg_stream, message_chan,
                   delivered>>
    /\ UNCHANGED <<ready, stdin, stdout, process, reader_task, child, closed>>

\* ClaudeSDKClient::next_message: the next item, or None once the reader
\* task has stopped and the channel is empty
NextMessage ==
    /\ ClientOnly /\ ProtoSame /\ WriteSame
    /\ client_life = "alive"
    /\ IF message_chan # << >>
          THEN /\ delivered' = Append(delivered, Head(message_chan))
               /\ message_chan' = Tail(message_chan)
          ELSE /\ reader_pc = "stopped"
               /\ (IF delivered = << >> THEN TRUE
                   ELSE delivered[Len(delivered)] # NoneItem)
               /\ delivered' = Append(delivered, NoneItem)
               /\ UNCHANGED message_chan
    /\ UNCHANGED <<json_buffer, loop_left, lines_read, arrived, msg_stream, reader_pc>>
    /\ UNCHANGED <<ready, stdin, stdout, process, reader_task, child, closed>>

\* ---- SubprocessTransport::close (ClaudeSDKClient::close, which holds the
\* transport lock for all of it) ----

\* What the wait of up to five seconds and the kill leave of the child: a
\* child that runs exits in time with some status, or is killed
AfterWait(c) == IF c = Running THEN {Exited(s) : s \in ExitStatuses} \cup {Killed} ELSE {c}

CloseMut ==
    /\ ClientOnly /\ ProtoSame /\ ReadSame
    /\ client_life = "alive"
    /\ transport_lock = Nobody
    /\ ready' = FALSE
    /\ stdin' = "none"
    /\ reader_task' = reader_task
    /\ stdout' = "none"
    /\ IF process = "transport"
          THEN /\ child' \in AfterWait(child)
               /\ process' = "waited"
          ELSE /\ process' = IF process = "reader" /\ reader_task \in {"reading", "waiting"}
                             THEN "dropped" ELSE process
               /\ UNCHANGED child
    /\ closed' = TRUE
    /\ UNCHANGED <<transport_lock, writer_pc, writer_line, writer_part, writes,
                   stdin_bytes, control_chan>>
Close ==
    /\ ClientOnly /\ ProtoSame /\ ReadSame
    /\ client_life = "alive"
    /\ transport_lock = Nobody
    /\ ready' = FALSE
    /\ stdin' = "none"
    /\ reader_task' = IF reader_task \in {"reading", "waiting"} THEN "aborted"
                      ELSE reader_task
    /\ stdout' = "none"
    /\ IF process = "transport"
          THEN /\ child' \in AfterWait(child)
               /\ process' = "waited"
          ELSE /\ process' = IF process = "reader" /\ reader_task \in {"reading", "waiting"}
                             THEN "dropped" ELSE process
               /\ UNCHANGED child
    /\ closed' = TRUE
    /\ UNCHANGED <<transport_lock, writer_pc, writer_line, writer_part, writes,
                   stdin_bytes, control_chan>>

\* ---- hook_handler_task and permission_handler_task ----

\* Only the client's handler tasks and its owner move
LifeOnly == UNCHANGED <<chatVars, memVars, lastOp, managerVars, envVars, callVars, lockVars>>

\* Who holds a clone of the Arc around the protocol handler, and with it
\* the senders of the hook and permission channels
ProtocolHolders ==
    (IF client_life = "alive" THEN {"client"} ELSE {})
        \cup (IF reader_pc = "running" THEN {"message_reader_task"} ELSE {})
        \cup (IF writer_pc[ControlWriter] # "stopped" THEN {ControlWriter} ELSE {})
        \cup (IF hook_task = "waiting" THEN {"hook_handler_task"} ELSE {})
        \cup (IF permission_task = "waiting" THEN {"permission_handler_task"} ELSE {})

\* Who holds a clone of the Arc around the transport
TransportHolders ==
    (IF client_life = "alive" THEN {"client"} ELSE {})
        \cup (IF reader_pc = "running" THEN {"message_reader_task"} ELSE {})
        \cup (IF writer_pc[ControlWriter] # "stopped" THEN {ControlWriter} ELSE {})

\* The manager ClaudeSDKClient::new builds from the options
FromOptions(callback, allowed_tools, disallowed_tools) ==
    [callback |-> Some(callback), allowed_tools |-> Some(allowed_tools),
     disallowed_tools |-> disallowed_tools]

\* hook_handler_task: for an event received, invoke the manager with empty
\* data and no tool name and create the response; when recv returns None
\* (every sender is gone), end
HookHandlerTask ==
    /\ LifeOnly /\ WriteSame /\ ReadSame
    /\ hook_task = "waiting"
    /\ IF Len(hook_outputs) < Len(hook_chan)
          THEN /\ hook_outputs' = Append(hook_outputs, invoke(matchers, Absent))
               /\ IF invoke(matchers, Absent).ok
                     THEN /\ generated' = Append(generated, next_id)
                          /\ next_request_id' = FetchAdd(next_request_id)
                     ELSE UNCHANGED <<generated, next_request_id>>
               /\ UNCHANGED hook_task
          ELSE /\ ProtocolHolders = {}
               /\ hook_task' = "stopped"
               /\ UNCHANGED <<hook_outputs, generated, next_request_id>>
    /\ UNCHANGED <<initialized, pending_requests, slots, requests, hook_tx,
                   permission_tx, hook_chan, permission_chan>>
    /\ UNCHANGED <<client_life, permission_task, permission_results>>
    /\ UNCHANGED <<ready, stdin, stdout, process, reader_task, child, closed>>

\* permission_handler_task: for a request received, ask the manager about
\* the request's tool and create the response; end when recv returns None
PermissionHandlerTask(tool_name) ==
    /\ LifeOnly /\ WriteSame /\ ReadSame
    /\ permission_task = "waiting"
    /\ IF Len(permission_results) < Len(permission_chan)
          THEN /\ permission_results' =
                      Append(permission_results,
                             [tool_name |-> tool_name,
                              result |-> can_use_tool(perm_manager, tool_name).result,
                              called |-> can_use_tool(perm_manager, tool_name).called])
               /\ IF can_use_tool(perm_manager, tool_name).result.ok
                     THEN /\ generated' = Append(generated, next_id)
                          /\ next_request_id' = FetchAdd(next_request_id)
                     ELSE UNCHANGED <<generated, next_request_id>>
               /\ UNCHANGED permission_task
          ELSE /\ ProtocolHolders = {}
               /\ permission_task' = "stopped"
               /\ UNCHANGED <<permission_results, generated, next_request_id>>
    /\ UNCHANGED <<initialized, pending_requests, slots, requests, hook_tx,
                   permission_tx, hook_chan, permission_chan>>
    /\ UNCHANGED <<client_life, hook_task, hook_outputs>>
    /\ UNCHANGED <<ready, stdin, stdout, process, reader_task, child, closed>>

\* control_writer_task: control_rx.recv() returns None once the client,
\* and with it control_tx, is gone and the channel is empty
ControlWriterEnds ==
    /\ ClientOnly /\ ProtoSame /\ ReadSame
    /\ writer_pc[ControlWriter] = "idle"
    /\ control_chan = << >>
    /\ client_life # "alive"
    /\ writer_pc' = [writer_pc EXCEPT ![ControlWriter] = "stopped"]
    /\ UNCHANGED <<transport_lock, writer_line, writer_part, writes, stdin_bytes,
                   control_chan>>
    /\ UNCHANGED <<ready, stdin, stdout, process, reader_task, child, closed>>

\* ---- impl Drop for ClaudeSDKClient, impl Drop for SubprocessTransport ----

\* The owner lets go of the client: message_rx, control_tx and the client's
\* clones of the transport and the protocol handler are dropped; nothing
\* is aborted
DropClient ==
    /\ LifeOnly /\ ProtoSame /\ WriteSame /\ ReadSame
    /\ client_life = "alive"
    /\ \A c \in Callers : writer_pc[c] = "idle"
    /\ client_life' = "dropped"
    /\ UNCHANGED <<hook_task, permission_task, hook_outputs, permission_results>>
    /\ UNCHANGED <<ready, stdin, stdout, process, reader_task, child, closed>>

\* What start_kill leaves of the child
StartKill(c) == IF c = Running THEN Killed ELSE c

\* The last clone of the transport goes: stdin is closed, the reader task
\* aborted, and the child killed if the transport still has its handle
DropTransport ==
    /\ LifeOnly /\ ProtoSame /\ WriteSame /\ ReadSame
    /\ client_life = "dropped"
    /\ TransportHolders = {}
    /\ client_life' = "transport_dropped"
    /\ stdin' = "none"
    /\ reader_task' = IF reader_task \in {"reading", "waiting"} THEN "aborted"
                      ELSE reader_task
    /\ IF process = "transport"
          THEN /\ child' = StartKill(child)
               /\ process' = "dropped"
          ELSE /\ process' = IF process = "reader" /\ reader_task \in {"reading", "waiting"}
                             THEN "dropped" ELSE process
               /\ UNCHANGED child
    /\ UNCHANGED <<hook_task, permission_task, hook_outputs, permission_results>>
    /\ UNCHANGED <<ready, stdout, closed>>

\* ---- initial states and next-state relations ----

TransportNew ==
    /\ ready = FALSE
    /\ stdin = "none"
    /\ stdout = "none"
    /\ process = "none"
    /\ reader_task = "none"
    /\ json_buffer = << >>
    /\ loop_left = "no"
    /\ child = NotSpawned
    /\ closed = FALSE
    /\ transport_lock = Nobody
    /\ writer_pc = [w \in Writers |-> "idle"]
    /\ writer_line = [w \in Writers |-> 0]
    /\ writer_part = [w \in Writers |-> 0]
    /\ writes = << >>
    /\ stdin_bytes = << >>
    /\ control_chan = << >>
    /\ lines_read = 0
    /\ arrived = << >>
    /\ msg_stream = << >>
    /\ message_chan = << >>
    /\ delivered = << >>

\* A transport by itself: nobody consumes its channel
ClientIdle ==
    /\ TransportNew
    /\ reader_pc = "none"
    /\ client_life = "alive"
    /\ hook_task = "none"
    /\ permission_task = "none"
    /\ hook_outputs = << >>
    /\ permission_results = << >>

\* ClaudeSDKClient::new has returned and the reader task has obtained the
\* receiver: the transport is connected, the hook and permission channels
\* are set, and their receivers live in the handler tasks when hooks or a
\* permission callback are configured and are dropped otherwise
ClientNew ==
    /\ ready = TRUE
    /\ stdin = "open"
    /\ stdout = "none"
    /\ process = "reader"
    /\ reader_task = "reading"
    /\ json_buffer = << >>
    /\ loop_left = "no"
    /\ child = Running
    /\ closed = FALSE
    /\ transport_lock = Nobody
    /\ writer_pc = [w \in Writers |-> "idle"]
    /\ writer_line = [w \in Writers |-> 0]
    /\ writer_part = [w \in Writers |-> 0]
    /\ writes = << >>
    /\ stdin_bytes = << >>
    /\ control_chan = << >>
    /\ lines_read = 0
    /\ arrived = << >>
    /\ msg_stream = << >>
    /\ message_chan = << >>
    /\ delivered = << >>
    /\ reader_pc = "running"

\* The handler tasks and managers of a client whose constructor has
\* returned: hooks configured with one pre_tool_use matcher "Write|Edit"
\* whose callback blocks, and a can_use_tool callback with no allowed and
\* no disallowed tools; or neither
AllowsRead == [t \in ToolNames |-> IF t = Read THEN "allow" ELSE "deny"]

HandlersNew ==
    /\ client_life = "alive"
    /\ hook_task = IF hook_tx = "open" THEN "waiting" ELSE "none"
    /\ permission_task = IF permission_tx = "open" THEN "waiting" ELSE "none"
    /\ hook_outputs = << >>
    /\ permission_results = << >>
    /\ matchers = IF hook_tx = "open"
                  THEN << [matcher |-> Some(Write \o <<Pipe>> \o Edit), hooks |-> <<"block">>] >>
                  ELSE << >>
    /\ perm_manager = IF permission_tx = "open"
                      THEN FromOptions(AllowsRead, {}, {})
                      ELSE NewPermissionManager
    /\ hook_call = NoCall
    /\ match_call = NoCall
    /\ perm_call = NoCall
    /\ text_call = NoCall
    /\ mcp_call = NoCall
    /\ LocksNew

\* take_hook_receiver / take_permission_receiver: what the owner can
\* receive.  A client without a manager keeps the receiving end of a
\* channel made for the purpose, whose sender is dropped at once, so
\* nothing is ever on it; a client with a manager keeps None.
OwnerReceiver(task) == IF task = "none" THEN Some(<< >>) ELSE Absent
take_hook_receiver == OwnerReceiver(hook_task)
take_permission_receiver == OwnerReceiver(permission_task)

\* The transport from construction on, with its writers
TransportNext ==
    \/ Connect
    \/ ReadMessages
    \/ \E status \in ExitStatuses : ChildExit(status)
    \/ ReadEof
    \/ WaitChild
    \/ \E c \in Callers : SendMessage(c)
    \/ \E method \in {"interrupt", "hook_response"} : SendControl(method)
    \/ ControlWriterTask
    \/ \E w \in Writers : WriteChunk(w)
    \/ Close

\* The read path of a connected client
ReadNext ==
    \/ \E kind \in LineKinds : ReadLine(kind)
    \/ \E error \in {"io", "timeout"} : ReadFails(error)
    \/ \E status \in ExitStatuses : ChildExit(status)
    \/ ReadEof
    \/ WaitChild
    \/ MessageReaderTask
    \/ MessageReaderEnds
    \/ NextMessage
    \/ Close

\* The life of a client that sends nothing: the read path, the handler
\* tasks, the end of the control writer, and the drop of the client and
\* of the transport
ClientNext ==
    \/ \E kind \in {"data", "hook", "permission"} : ReadLine(kind)
    \/ ReadFails("timeout")
    \/ \E status \in ExitStatuses : ChildExit(status)
    \/ ReadEof
    \/ WaitChild
    \/ MessageReaderTask
    \/ MessageReaderEnds
    \/ NextMessage
    \/ ControlWriterEnds
    \/ HookHandlerTask
    \/ \E tool_name \in ToolNames : PermissionHandlerTask(tool_name)
    \/ DropClient
    \/ DropTransport

\* The tasks run when they can: the runtime schedules a task that is ready,
\* a read that gets no line times out, and a value whose last owner is gone
\* is dropped.  Nothing is assumed of the child or of the caller.
ClientFairness ==
    /\ WF_vars(ReadFails("timeout"))
    /\ WF_vars(ReadEof)
    /\ WF_vars(WaitChild)
    /\ WF_vars(MessageReaderTask)
    /\ WF_vars(MessageReaderEnds)
    /\ WF_vars(ControlWriterEnds)
    /\ WF_vars(HookHandlerTask)
    /\ WF_vars(\E tool_name \in ToolNames : PermissionHandlerTask(tool_name))
    /\ WF_vars(DropTransport)

\* Room for one more line among the lines the model lets the writers send:
\* a request on the control channel keeps its place
LineBudget == Len(writes) + Len(control_chan) < MaxLinesSent

\* ClaudeSDKClient::interrupt
Interrupt == LineBudget /\ SendControl("interrupt")

\* ClaudeSDKClient::respond_to_hook
RespondToHook == LineBudget /\ SendControl("hook_response")

\* A client that interrupts while callers send messages, with a child
\* that may exit and a transport that may be closed at any time
InterruptNext ==
    \/ Interrupt
    \/ RespondToHook
    \/ \E c \in Callers : LineBudget /\ SendMessage(c)
    \/ ControlWriterTask
    \/ \E w \in Writers : WriteChunk(w)
    \/ \E status \in ExitStatuses : ChildExit(status)
    \/ Close

\* The control writer task is scheduled when it has a request, and it gets
\* the transport lock, which is handed out in the order it was asked for;
\* a write in progress goes on
InterruptFairness ==
    /\ SF_vars(ControlWriterTask)
    /\ \A w \in Writers : WF_vars(WriteChunk(w))

-----------------------------------------------------------------------------
(* Specifications *)

\* The environment of an ordinary run: the parent has PATH and HOME, the
\* caller sets nothing, and no child is spawned yet
EnvNew ==
    /\ parent_env = EnvOf({"PATH", "HOME"}, "parent")
    /\ options_env = NoEnv
    /\ cwd = Absent
    /\ child_env = NoEnv

Init ==
    /\ ProtoInit
    /\ lastOp = NoOp
    /\ ChatIdle
    /\ MemIdle
    /\ ClientIdle
    /\ ManagersNew
    /\ EnvNew

SpecProtocol == Init /\ [][ProtoNext]_vars

\* Request ids only: the three tasks create requests in any interleaving
RequestIdNext ==
    \E t \in Tasks : \E m \in TaskMethods(t) : CreateRequest(t, m, MaxIds)

SpecRequestIds == Init /\ [][RequestIdNext]_vars

\* One direct-provider send, against every behaviour of the provider
InitChat ==
    /\ ProtoInit
    /\ lastOp = NoOp
    /\ ChatInit
    /\ MemIdle
    /\ ClientIdle
    /\ ManagersNew
    /\ EnvNew

SpecChat == InitChat /\ [][ChatNext]_vars

\* Memory-tool commands in any order, on every initial workspace
InitMemory ==
    /\ ProtoInit
    /\ lastOp = NoOp
    /\ ChatIdle
    /\ MemInit
    /\ ClientIdle
    /\ ManagersNew
    /\ EnvNew

SpecMemory == InitMemory /\ [][MemNext]_vars

\* A transport from construction on: connect, read_messages, writers
\* that share it behind the lock, close, and the child
SpecTransport == Init /\ [][TransportNext]_vars

\* The read path of a client whose constructor has returned, with hook and
\* permission handlers configured and with neither
InitRead ==
    /\ next_request_id = 1
    /\ initialized = TRUE
    /\ pending_requests = << >>
    /\ slots = << >>
    /\ requests = [t \in Tasks |-> None]
    /\ generated = << >>
    /\ hook_tx \in {"open", "closed"}
    /\ permission_tx = hook_tx
    /\ hook_chan = << >>
    /\ permission_chan = << >>
    /\ lastOp = NoOp
    /\ ChatIdle
    /\ MemIdle
    /\ ClientNew
    /\ HandlersNew
    /\ parent_env = EnvOf({"PATH", "HOME"}, "parent")
    /\ options_env = NoEnv
    /\ cwd = Absent
    /\ child_env = SpawnEnv(parent_env, ProcessEnv(parent_env, options_env, cwd))

SpecRead == InitRead /\ [][ReadNext]_vars

\* The environments connect is exercised with: of the names below, at most
\* MaxEnvVars set in the parent and at most MaxEnvVars set by the caller
EnvNames == DANGEROUS_ENV_VARS \cup {"HOME", "PWD"}

EnvsOf(value) ==
    {EnvOf(names, value) : names \in {n \in SUBSET EnvNames : Cardinality(n) <= MaxEnvVars}}

InitEnv ==
    /\ ProtoInit
    /\ lastOp = NoOp
    /\ ChatIdle
    /\ MemIdle
    /\ ClientIdle
    /\ ManagersNew
    /\ parent_env \in EnvsOf("parent")
    /\ options_env \in EnvsOf("caller")
    /\ cwd \in {Absent, Some(Workspace)}
    /\ child_env = NoEnv

\* connect, for every environment of the parent and of the caller
EnvNext == Connect

SpecEnv == InitEnv /\ [][EnvNext]_vars

\* The functions on the text of a memory file, each called once
SpecText == Init /\ [][TextNext]_vars

SpecMcp == Init /\ [][McpNext]_vars

SpecLocks == Init /\ [][LocksNext]_vars

\* A permission manager: it is configured, then asked about a tool
SpecPermissions == Init /\ [][PermissionNext]_vars

\* The pattern matcher called with a matcher and a tool name
SpecMatches == Init /\ [][MatchNext]_vars

\* A hook manager: matchers are registered, then invoke is called
SpecHooks == Init /\ [][HookNext]_vars

\* The life of a client from the return of its constructor to its drop,
\* with tasks that are scheduled fairly
SpecClient == InitRead /\ [][ClientNext]_vars /\ ClientFairness

\* A connected client whose owner interrupts, with a control writer task
\* that is scheduled fairly
SpecInterrupt == InitRead /\ [][InterruptNext]_vars /\ InterruptFairness

-----------------------------------------------------------------------------
(* Properties of the control protocol handler *)

RECURSIVE DigitsValue(_)
DigitsValue(d) ==
    IF Len(d) = 0 THEN 0
    ELSE 10 * DigitsValue(SubSeq(d, 1, Len(d) - 1)) + d[Len(d)]

IsRequestId(id) ==
    /\ Len(id) > 4
    /\ SubSeq(id, 1, 4) = <<"r", "e", "q", "-">>
    /\ \A k \in 5..Len(id) : id[k] \in 0..9

IdNumber(id) == DigitsValue(SubSeq(id, 5, Len(id)))

\* C3: when handle_response receives a success or error response whose id
\* has an outstanding pending request, the slot registered for that id (and no
\* other) resolves, to that response; the entry leaves the pending table and
\* every other entry and slot is untouched. A response whose id has no entry
\* (such as a second response with the same id) resolves nothing.
C3_MatchingResponseResolvesOneSlot ==
    [][\A r \in PendingResponses :
          lastOp' = [op |-> "handle_response", response |-> r, ok |-> TRUE] =>
              IF r.id \in DOMAIN pending_requests
                  THEN LET k == pending_requests[r.id] IN
                       /\ slots[k] = Waiting
                       /\ Len(slots') = Len(slots)
                       /\ slots'[k] = Resolved(r)
                       /\ \A j \in DOMAIN slots \ {k} : slots'[j] = slots[j]
                       /\ DOMAIN pending_requests' = DOMAIN pending_requests \ {r.id}
                       /\ \A id \in DOMAIN pending_requests' :
                              pending_requests'[id] = pending_requests[id]
                  ELSE /\ slots' = slots
                       /\ pending_requests' = pending_requests]_vars

\* A response has resolved one slot while another request is still pending
C3_Witness ==
    /\ lastOp.op = "handle_response"
    /\ \E k \in DOMAIN slots : slots[k] = Resolved(lastOp.response)
    /\ \E k \in DOMAIN slots : slots[k] = Waiting
    /\ DOMAIN pending_requests # {}

\* C4: the request ids one handler generates, whichever task and create
\* function asks for them, are pairwise distinct, have the form req-<n>, and
\* n strictly increases in generation order.
C4_RequestIdsDistinctAndIncreasing ==
    /\ \A i \in 1..Len(generated) : IsRequestId(generated[i])
    /\ \A i, j \in 1..Len(generated) :
           i < j => /\ generated[i] # generated[j]
                    /\ IdNumber(generated[i]) < IdNumber(generated[j])

\* Ten or more ids were generated, by different tasks and create functions
C4_Witness ==
    /\ Len(generated) >= 10
    /\ requests["api"].method = "interrupt"
    /\ requests["hook_handler"].method = "hook_response"
    /\ requests["permission_handler"].method = "permission_response"

-----------------------------------------------------------------------------
(* Properties of the direct-provider loop *)

\* C7: whatever the provider answers, one send on the Anthropic or Bedrock
\* path issues at most MAX_ITERATIONS (10) provider calls, and once the tenth
\* call has been handled the send has returned.
C7_AtMostTenProviderCalls ==
    /\ calls <= MAX_ITERATIONS
    /\ chat_pc = "loop" => calls < MAX_ITERATIONS
    /\ calls = MAX_ITERATIONS => chat_pc \in {"returned_ok", "returned_err"}

\* The provider answered tool_use ten times and the send returned
C7_Witness ==
    /\ calls = MAX_ITERATIONS
    /\ iteration = MAX_ITERATIONS
    /\ chat_last.response.stop = "tool_use"
    /\ chat_pc = "returned_ok"

-----------------------------------------------------------------------------
(* Memory tool claims *)

\* The memories root or something under it, or a directory on the way to
\* the root
AtOrUnderRoot(q) == IsPrefix(memories_dir, q)
OnTheWayToRoot(q) == IsPrefix(q, memories_dir)

\* The paths C6 speaks of, read off the text of the argument
IsTraversalPath(p) ==
    \/ \E i \in 1..(Len(p) - 1) : p[i] = "." /\ p[i + 1] = "."
    \/ \E i \in 1..(Len(p) - 2) : p[i] = "%" /\ p[i + 1] = "2" /\ p[i + 2] \in {"e", "E"}
    \/ (p # <<>> /\ p[1] \in {"/", "\\"})

\* C5: after any sequence of memory-tool commands nothing outside the
\* memories root has been read, created, modified, renamed or removed, and
\* every path resolve_path returned Ok for has its canonical form at or
\* under the canonical memories root.  (Making the directories that lead
\* to the root is not counted against the claim.)
C5_NothingOutsideMemoriesRoot ==
    /\ \A q \in mem_last.touched : AtOrUnderRoot(q) \/ OnTheWayToRoot(q)
    /\ \A q \in mem_last.resolved : AtOrUnderRoot(q)

\* C6 as stated: a command with a traversal path in any path argument
\* returns success=false and reads, writes and creates nothing
C6_RejectedBeforeAnyAccess ==
    (/\ mem_last.cmd # "none"
     /\ IsTraversalPath(mem_last.path) \/ IsTraversalPath(mem_last.new_path))
        => /\ ~mem_last.success
           /\ ~mem_last.accessed
           /\ mem_last.touched = {}

\* C6, amended: a command whose path argument (for rename: the old path)
\* is a traversal path returns success=false before any filesystem call;
\* a rename whose new path alone is a traversal path returns success=false
\* and reads, writes, renames and removes nothing, but the old path has
\* been resolved first, which may have created the memories directory
C6_RejectedPathFails ==
    mem_last.cmd # "none" =>
        /\ IsTraversalPath(mem_last.path) =>
               /\ ~mem_last.success
               /\ ~mem_last.accessed
               /\ mem_last.touched = {}
               /\ ~mem_last.synced
        /\ IsTraversalPath(mem_last.new_path) =>
               /\ ~mem_last.success
               /\ mem_last.touched \subseteq {Parent(memories_dir), memories_dir}
               /\ mem_last.resolved \subseteq {Canonicalize(fs, Join(memories_dir, mem_last.path))}
               /\ ~mem_last.synced

\* A rename with a good old path and a traversal new path has failed after
\* the memories directory was created for the old path
C6_Witness ==
    /\ mem_last.cmd = "rename"
    /\ ~IsTraversalPath(mem_last.path)
    /\ IsTraversalPath(mem_last.new_path)
    /\ ~mem_last.success
    /\ memories_dir \in mem_last.touched

-----------------------------------------------------------------------------
(* Transport and client claims *)

\* The writes whose pieces reached the child's stdin
LineOf(i) == stdin_bytes[i][1]
PartOf(i) == stdin_bytes[i][2]

\* C1: the bytes on the child's stdin are whole lines one after the other,
\* each the payload of one write: the pieces of a line are adjacent and in
\* order, none appears twice, and a line is cut short only at the very end
\* of the stream, while its write is still going on or after it failed
C1_LinesNotInterleaved ==
    \A i \in 1..Len(stdin_bytes) :
        /\ PartOf(i) > 1 => (i > 1 /\ stdin_bytes[i - 1] = <<LineOf(i), PartOf(i) - 1>>)
        /\ PartOf(i) = 1 => (i = 1 \/ PartOf(i - 1) = LineChunks)
        /\ PartOf(i) < LineChunks =>
               \/ (i < Len(stdin_bytes) /\ stdin_bytes[i + 1] = <<LineOf(i), PartOf(i) + 1>>)
               \/ (i = Len(stdin_bytes) /\ writes[LineOf(i)].result # "ok")
        /\ \A j \in 1..Len(stdin_bytes) : stdin_bytes[j] = stdin_bytes[i] => j = i

\* A caller's line is complete on stdin and the control writer task is in
\* the middle of the next one while another caller has a message to send
C1_Witness ==
    /\ Len(stdin_bytes) > LineChunks
    /\ writes[LineOf(1)].by \in Callers
    /\ writes[LineOf(1)].result = "ok"
    /\ writer_pc[ControlWriter] = "writing"
    /\ transport_lock = ControlWriter

\* C2: next_message returns data messages only, each later one from a
\* line that arrived later, so in arrival order and none twice; control
\* envelopes are never returned
C2_DataInArrivalOrder ==
    \A i \in 1..Len(delivered) :
        delivered[i].ok =>
            /\ delivered[i].what = "data"
            /\ \A j \in 1..(i - 1) : delivered[j].ok => delivered[j].n < delivered[i].n

\* Two data messages have been returned
C2_Witness ==
    /\ Len(delivered) >= 2
    /\ delivered[1].ok
    /\ delivered[2].ok

\* C8: when close() has returned the child has terminated (it exited or
\* was killed)
C8_ChildTerminatedWhenCloseReturns ==
    closed => (child = NotSpawned \/ Terminated(child))

IsProcessError(item) == ~item.ok /\ item.what = "process"

OfTheReadPath(item) ==
    item.ok \/ item.what \in {"json_decode", "message_parse", "process", "none"}

C10_OneProcessErrorAfterEof ==
    (/\ loop_left = "eof"
     /\ reader_task = "finished"
     /\ child.state = "exited"
     /\ child.status # Signalled
     /\ delivered # << >>
     /\ delivered[Len(delivered)] = NoneItem
     /\ \A i \in 1..Len(delivered) : OfTheReadPath(delivered[i]))
        => IF child.status # 0
           THEN /\ Len(delivered) >= 2
                /\ delivered[Len(delivered) - 1] = ErrItem("process", child.status)
                /\ \A i \in 1..(Len(delivered) - 2) : ~IsProcessError(delivered[i])
           ELSE \A i \in 1..Len(delivered) : ~IsProcessError(delivered[i])

\* An error about one inbound line: the buffer ceiling was exceeded, or the
\* value is not a message
IsLineError(item) == ~item.ok /\ item.what \in {"json_decode", "message_parse"}

\* next_message has returned None, and the only errors it returned before
\* are errors about one line
EndedAfterLineErrorsOnly ==
    /\ delivered # << >>
    /\ delivered[Len(delivered)] = NoneItem
    /\ \A i \in 1..(Len(delivered) - 1) : delivered[i].ok \/ IsLineError(delivered[i])

\* C11: a decode or parse error for one line is delivered as an Err and
\* does not close the stream: once next_message has returned None with
\* nothing but such errors before it, every data message that arrived on
\* stdout after one of them has been delivered
C11_DataAfterLineErrorDelivered ==
    EndedAfterLineErrorsOnly =>
        \A i \in 1..Len(delivered) : \A n \in Range(arrived) :
            (IsLineError(delivered[i]) /\ n > delivered[i].n)
                => OkItem("data", n) \in Range(delivered)

\* The four background tasks of the client have returned
BackgroundTasksEnded ==
    /\ reader_pc = "stopped"
    /\ writer_pc[ControlWriter] = "stopped"
    /\ hook_task \in {"none", "stopped"}
    /\ permission_task \in {"none", "stopped"}

\* C12: after the client is dropped, every background task (reader,
\* writer, hook handler, permission handler) eventually ends and the
\* child's stdin is eventually closed, whatever the child prints or not
C12_DropEndsTasksAndClosesStdin ==
    (client_life # "alive") ~> (BackgroundTasksEnded /\ stdin = "none")


-----------------------------------------------------------------------------
\* ---- interrupt and the control writer task ----

\* The writes of the control writer task, in the order they were begun
ControlWrites == SelectSeq(writes, LAMBDA r : r.by = ControlWriter)

\* The interrupts still on the control channel
QueuedInterrupts == SelectSeq(control_chan, LAMBDA m : m = "interrupt")

\* How many calls of interrupt() have returned Ok so far
InterruptsAccepted == Len(ControlWrites) + Len(QueuedInterrupts)

\* The transport can take a line: connected, not closed, child running
TransportOpen == ready /\ stdin = "open" /\ child = Running

\* The n-th interrupt line is on stdin, whole
InterruptWritten(n) ==
    /\ Len(ControlWrites) >= n
    /\ ControlWrites[n].result = "ok"

-----------------------------------------------------------------------------
\* ---- hook and permission envelopes of a client without handlers ----

\* Err(protocol) put on the message channel for a hook or permission
\* envelope that could not be passed on
IsEnvelopeError(item) == ~item.ok /\ item.what = "protocol" /\ item.n > 0

\* The client was constructed without hooks and without a permission
\* callback: it has receivers to hand to its owner
WithoutHandlers ==
    /\ take_hook_receiver # Absent
    /\ take_permission_receiver # Absent

\* C14: for a client constructed without hooks and without a permission
\* callback, a hook or permission envelope read from stdout is never
\* reported as an error on the message channel (it goes to the owner's
\* receiver instead)
C14_EnvelopesNotReportedAsErrors ==
    WithoutHandlers =>
        /\ \A i \in DOMAIN message_chan : ~IsEnvelopeError(message_chan[i])
        /\ \A i \in DOMAIN delivered : ~IsEnvelopeError(delivered[i])


-----------------------------------------------------------------------------
\* ---- hook events handled by a client with hooks ----

\* The client was constructed with one matcher, pattern "Write|Edit", whose
\* callback blocks
BlocksWriteOrEdit ==
    matchers = << [matcher |-> Some(Write \o <<Pipe>> \o Edit), hooks |-> <<"block">>] >>

\* C15: in a client whose only matcher has pattern "Write|Edit" and a
\* callback that blocks, every hook event handled (the CLI sends them for
\* uses of Write) had the callback invoked and has an output with
\* decision = block
C15_WriteHookBlocks ==
    BlocksWriteOrEdit =>
        \A k \in DOMAIN hook_outputs :
            /\ hook_outputs[k].ok
            /\ hook_outputs[k].invoked # << >>
            /\ hook_outputs[k].output.decision = Some(Block)


-----------------------------------------------------------------------------
\* ---- HookManager::invoke ----

\* The callbacks of the matchers that match the tool name, each named by
\* its matcher and its place in it
Candidates(ms, tool_name) ==
    {<<i, j>> : i \in {m \in 1..Len(ms) : matches(ms[m].matcher, tool_name)},
                j \in 1..MaxCallbacks} \cap
    {<<i, j>> \in (1..Len(ms)) \X (1..MaxCallbacks) : j <= Len(ms[i].hooks)}

\* Registration order: matcher by matcher, and within a matcher hook by hook
Before(a, b) == a[1] < b[1] \/ (a[1] = b[1] /\ a[2] < b[2])

CallbackAt(ms, at) == ms[at[1]].hooks[at[2]]

\* C16: during one invoke the callbacks of the matching matchers run in
\* registration order; a callback runs iff no callback before it has
\* blocked (or failed); and when a callback blocks, the output returned
\* has decision = block
C16_InvokeInOrderUntilBlock ==
    hook_call.op = "invoke" =>
        LET invoked == hook_call.result.invoked
            among == Candidates(matchers, hook_call.tool_name)
        IN  /\ Range(invoked) \subseteq among
            /\ \A k \in 1..(Len(invoked) - 1) : Before(invoked[k], invoked[k + 1])
            /\ \A at \in among :
                   at \in Range(invoked) <=>
                       \A earlier \in among :
                           Before(earlier, at) => CallbackAt(matchers, earlier) = "pass"
            /\ \A at \in Range(invoked) :
                   CallbackAt(matchers, at) = "block" =>
                       /\ hook_call.result.ok
                       /\ hook_call.result.output.decision = Some(Block)
                       /\ at = invoked[Len(invoked)]

\* A second callback blocked after one that passed, and a callback
\* registered after it, of a matching matcher, was not invoked
C16_Witness ==
    /\ hook_call.op = "invoke"
    /\ Len(hook_call.result.invoked) = 2
    /\ CallbackAt(matchers, hook_call.result.invoked[2]) = "block"
    /\ hook_call.result.output.decision = Some(Block)
    /\ Candidates(matchers, hook_call.tool_name) \ Range(hook_call.result.invoked) # {}


-----------------------------------------------------------------------------
\* ---- HookManager::matches ----

\* n is one of the pieces of p between the separators: it holds no
\* separator, and it stands in p between two separators or ends of p
IsPiece(n, p) ==
    /\ Pipe \notin Range(n)
    /\ \E i \in 0..(Len(p) - Len(n)) :
           /\ SubSeq(p, i + 1, i + Len(n)) = n
           /\ i = 0 \/ p[i] = Pipe
           /\ i + Len(n) = Len(p) \/ p[i + Len(n) + 1] = Pipe

\* C17 as stated: no matcher matches anything; the pattern "*" matches
\* every name; any other pattern matches a name exactly when the name is
\* one of its pieces split on '|'; a pattern never matches an absent name
C17_MatchesAsStated ==
    match_call.op = "matches" =>
        match_call.result =
            IF match_call.matcher = Absent THEN TRUE
            ELSE IF match_call.tool_name = Absent THEN FALSE
            ELSE IF match_call.matcher[1] = Star THEN TRUE
            ELSE IsPiece(match_call.tool_name[1], match_call.matcher[1])

\* C17: no matcher matches anything; a pattern never matches an absent
\* name; and a pattern p matches a name n exactly when p is "*", or n is p
\* itself, or n is one of the pieces of p split on '|'
C17_MatchesExactOrPiece ==
    match_call.op = "matches" =>
        match_call.result =
            IF match_call.matcher = Absent THEN TRUE
            ELSE IF match_call.tool_name = Absent THEN FALSE
            ELSE \/ match_call.matcher[1] = Star
                 \/ match_call.tool_name[1] = match_call.matcher[1]
                 \/ IsPiece(match_call.tool_name[1], match_call.matcher[1])

\* A name that holds the separator matched the pattern equal to it,
\* without being one of its pieces
C17_Witness ==
    /\ match_call.op = "matches"
    /\ match_call.matcher = Some(Write \o <<Pipe>> \o Edit)
    /\ match_call.tool_name = Some(Write \o <<Pipe>> \o Edit)
    /\ match_call.result
    /\ ~IsPiece(match_call.tool_name[1], match_call.matcher[1])


-----------------------------------------------------------------------------
\* ---- PermissionManager::can_use_tool ----

InDenyList(manager, tool_name) == tool_name \in manager.disallowed_tools

OffAllowList(manager, tool_name) ==
    /\ manager.allowed_tools # Absent
    /\ tool_name \notin manager.allowed_tools[1]

DeniedUnasked(call) ==
    /\ call.result.ok
    /\ call.result.verdict = "deny"
    /\ ~call.called

\* C18: a tool in the deny list is denied without asking the callback,
\* also when it is in the allow list; else a tool missing from a
\* configured allow list is denied without asking the callback; else the
\* callback's verdict is returned if there is a callback; else Allow
C18_PermissionOrder ==
    perm_call.op = "can_use_tool" =>
        IF InDenyList(perm_manager, perm_call.tool_name)
        THEN DeniedUnasked(perm_call)
        ELSE IF OffAllowList(perm_manager, perm_call.tool_name)
        THEN DeniedUnasked(perm_call)
        ELSE IF perm_manager.callback # Absent
        THEN /\ perm_call.called
             /\ perm_call.result = Answer(perm_manager.callback[1][perm_call.tool_name])
        ELSE /\ ~perm_call.called
             /\ perm_call.result = Allow

\* A tool on both lists, which the callback would allow, was denied
\* without asking the callback
C18_Witness ==
    /\ perm_call.op = "can_use_tool"
    /\ InDenyList(perm_manager, perm_call.tool_name)
    /\ perm_manager.allowed_tools # Absent
    /\ perm_call.tool_name \in perm_manager.allowed_tools[1]
    /\ perm_manager.callback # Absent
    /\ perm_manager.callback[1][perm_call.tool_name] = "allow"
    /\ DeniedUnasked(perm_call)


-----------------------------------------------------------------------------
\* ---- permission requests handled by a client with a callback ----

\* The client was built from options that set a can_use_tool callback and
\* no allowed_tools and no disallowed_tools
OnlyCallbackSet == perm_manager = FromOptions(AllowsRead, {}, {})

\* C19: in a client built from options that set only a can_use_tool
\* callback, every permission request handled was decided by invoking the
\* callback, and its verdict is the callback's
C19_CallbackDecides ==
    OnlyCallbackSet =>
        \A k \in DOMAIN permission_results :
            /\ permission_results[k].called
            /\ permission_results[k].result =
                   Answer(AllowsRead[permission_results[k].tool_name])


-----------------------------------------------------------------------------
\* ---- the environment of the spawned child ----

\* C20: the environment of a spawned child holds no deny-listed variable,
\* whether the caller set it in options.env or the parent process has it
C20_NoDangerousVarInChild ==
    child # NotSpawned => DOMAIN child_env \cap DANGEROUS_ENV_VARS = {}


-----------------------------------------------------------------------------
\* ---- str_replace on the text of a file ----

\* The places where old_str stands in the content
Occurrences(content, old_str) ==
    {i \in 1..(Len(content) - Len(old_str) + 1) :
         SubSeq(content, i, i + Len(old_str) - 1) = old_str}

\* The content with the occurrence at place i replaced
ReplacedAt(content, i, old_str, new_str) ==
    SubSeq(content, 1, i - 1) \o new_str \o SubSeq(content, i + Len(old_str), Len(content))

\* C21: a str_replace that returns succeeds only if old occurs exactly
\* once, and then the content afterwards is the content before with that
\* occurrence replaced by new; when old occurs zero times or more than once
\* it returns success = false and the content is the same as before
C21_ReplacesTheOnlyOccurrence ==
    (text_call.op = "str_replace" /\ text_call.result.returned) =>
        LET places == Occurrences(text_call.content, text_call.args[1])
        IN  IF Cardinality(places) = 1
            THEN text_call.result.success =>
                     \A i \in places :
                         text_call.result.content =
                             ReplacedAt(text_call.content, i, text_call.args[1],
                                        text_call.args[2])
            ELSE /\ ~text_call.result.success
                 /\ text_call.result.content = text_call.content


-----------------------------------------------------------------------------
\* ---- insert on the text of a file ----

\* The lines of a text without those numbered from..(from + count - 1)
WithoutLines(ls, from, count) ==
    SubSeq(ls, 1, from - 1) \o SubSeq(ls, from + count, Len(ls))

\* C22: insert fails and leaves the content as it was whenever the line
\* number is greater than the number of lines of the file; for a line
\* number from 1 to that number it succeeds, the first line of the text
\* becomes the line of that number, and the lines the file had are kept in
\* their order around the inserted ones
C22_InsertWithinLength ==
    text_call.op = "insert" =>
        LET before == Lines(text_call.content)
            after == Lines(text_call.result.content)
            added == Lines(text_call.args[2])
            line == text_call.args[1]
        IN  /\ line > Len(before) =>
                /\ ~text_call.result.success
                /\ text_call.result.content = text_call.content
            /\ (1 <= line /\ line <= Len(before)) =>
                /\ text_call.result.success
                /\ added # << >> => (Len(after) >= line /\ after[line] = added[1])
                /\ WithoutLines(after, line, Len(added)) = before


Max(a, b) == IF a > b THEN a ELSE b

LinesShown(output) == IF output = EmptyFile THEN << >> ELSE output

InRange(lines, start, end) ==
    LET first == Max(start, 1)
        last == Min(end, Len(lines))
    IN  [k \in 1..Max(last - first + 1, 0) |-> <<first + k - 1, lines[first + k - 1]>>]

\* C23: view of a file of n lines with a range (start, end) returns, for
\* every start and end, exactly the lines whose numbers lie in [start, end]
\* clamped to [1, n], each with its own number; without a range it returns
\* all n lines numbered from 1
C23_ViewShowsClampedRange ==
    text_call.op = "view" =>
        LET lines == Lines(text_call.content)
            view_range == text_call.args[1]
        IN  /\ text_call.result.returned
            /\ text_call.result.success
            /\ LinesShown(text_call.result.output) =
                   IF view_range = Absent THEN InRange(lines, 1, Len(lines))
                   ELSE InRange(lines, view_range[1][1], view_range[1][2])


\* C25: for every command and every argument value (any text, multi-byte
\* characters included, any line number, any view range) the call returns a
\* result instead of aborting, and the result has success = false exactly
\* when it carries an error message
C25_AlwaysReturnsAResult ==
    text_call # NoCall =>
        /\ text_call.result.returned
        /\ text_call.result.success <=> (text_call.result.error = Absent)


\* The paths resolve_path takes for the memories root itself
RootPaths == {<< >>, <<".">>}

\* C24: the memories root directory, once it exists, exists after every
\* command: delete with a path that resolves to the root returns
\* success = false and removes nothing, and no other command removes or
\* moves the root
C24_RootDirectoryStays ==
    [][/\ IsDir(fs, memories_dir) =>
            /\ IsDir(fs', memories_dir)
            /\ Canonicalize(fs', memories_dir) = Canonicalize(fs, memories_dir)
       /\ (mem_last'.cmd = "delete" /\ mem_last'.path \in RootPaths) =>
            /\ ~mem_last'.success
            /\ DOMAIN fs \subseteq DOMAIN fs']_vars


-----------------------------------------------------------------------------
(* MCP server claims *)

\* The tool a tools/call request names: none when there are no parameters,
\* the parameters are no object, or name is missing or no string
ToolNamed(request) ==
    IF request.params = Absent THEN Absent
    ELSE as_str(JsonIndex(request.params[1], "name"))

ErrorCode(response) == IF response.error = Absent THEN 0 ELSE response.error[1].code

\* What a tools/call request is answered with, given the error code a
\* request without a tool name gets
ToolsCallAnswered(call, code_without_name) ==
    LET tool_name == ToolNamed(call.request)
        Handled(outcome) ==
            IF outcome.ok THEN call.response.result = Some(outcome.value)
            ELSE ErrorCode(call.response) = -32603
    IN  /\ call.response.id = RequestId(call.request)
        /\ (call.response.result = Absent) # (call.response.error = Absent)
        /\ IF tool_name = Absent THEN ErrorCode(call.response) = code_without_name
           ELSE IF tool_name[1] \notin DOMAIN call.tools
           THEN ErrorCode(call.response) = -32001
           ELSE Handled(tool_invoke(call.tools[tool_name[1]],
                                    JsonIndex(call.request.params[1], "arguments")))

IsToolsCall == mcp_call # NoCall /\ mcp_call.request.method = "tools/call"

\* C26 as stated: a tools/call request is answered with method_not_found
\* (-32601) when params.name is missing, with tool_not_found (-32001) when no
\* tool of that name is registered, otherwise with the handler's serialized
\* result or with internal_error (-32603) when the handler fails; the
\* response echoes the request id and carries exactly one of result and error
C26_MissingNameIsMethodNotFound ==
    IsToolsCall => ToolsCallAnswered(mcp_call, -32601)

\* C26, amended: as above, but a request without a tool name (no parameters,
\* or no string under name) is answered with invalid_params (-32602)
C26_MissingNameIsInvalidParams ==
    IsToolsCall => ToolsCallAnswered(mcp_call, -32602)

\* A tools/call request with parameters but without a tool name has been
\* answered
C26_Witness ==
    /\ IsToolsCall
    /\ ToolNamed(mcp_call.request) = Absent
    /\ mcp_call.request.params # Absent
    /\ ErrorCode(mcp_call.response) = -32602


-----------------------------------------------------------------------------
(* Unmatched responses *)

IsPendingResponse(op) ==
    op.op = "handle_response" /\ op.response.status \in {"success", "error"}

\* C27: a success or error response whose id matches no pending request is
\* dropped, never queued: handle_response returns Ok and leaves the pending
\* table and every slot as they were, a slot registered later (with that id
\* or any other) starts without a response, and a slot gets a response only
\* in the handle_response call of that response
C27_UnmatchedResponseDropped ==
    [][/\ (IsPendingResponse(lastOp') /\ lastOp'.response.id \notin DOMAIN pending_requests) =>
            /\ lastOp'.ok
            /\ pending_requests' = pending_requests
            /\ slots' = slots
       /\ \A i \in 1..Len(slots') :
            /\ i > Len(slots) => slots'[i] = Waiting
            /\ (i <= Len(slots) /\ slots'[i] # slots[i] /\ slots'[i].state = "resolved") =>
                   /\ IsPendingResponse(lastOp')
                   /\ slots'[i] = Resolved(lastOp'.response)]_vars

\* A response to a request that was created but not yet sent has been
\* handled: nothing was pending, and no slot exists
C27_Witness ==
    /\ IsPendingResponse(lastOp)
    /\ initialized
    /\ slots = << >>
    /\ \E t \in Tasks : requests[t] # None /\ requests[t].id = lastOp.response.id


-----------------------------------------------------------------------------
(* Lock claims of the bidirectional client *)

\* The reader task has the message receiver and is in its loop, or past it
ReaderHasReceiver ==
    task_at[ReaderTask].pc \notin {"start", "transport", "read_messages"}

InQueue(task, lock) == \E i \in 1..Len(lock_queue[lock]) : lock_queue[lock][i] = task

\* C28: the reader task calls transport.lock() once, holds the lock only
\* for read_messages, and from its first wait for a message on never holds
\* it or waits for it: a task waiting for the transport lock then waits for
\* another writer, never for the reader
C28_ReaderLocksTransportOnce ==
    /\ reader_locks <= 1
    /\ lock_holder["transport"] = ReaderTask => task_at[ReaderTask].pc = "read_messages"
    /\ ReaderHasReceiver =>
           /\ reader_locks = 1
           /\ lock_holder["transport"] # ReaderTask
           /\ ~InQueue(ReaderTask, "transport")

\* The reader waits for a message while the writer task holds the transport
\* lock and send_message or close waits for it
C28_Witness ==
    /\ task_at[ReaderTask].pc = "recv"
    /\ lock_holder["transport"] = WriterTask
    /\ lock_queue["transport"] = <<ApiCaller>>

\* C29: no deadlock on the transport lock, the protocol lock, the lock on
\* pending_requests and the manager locks: a task that waits for a lock
\* holds no lock another task waits for, and the holder of the lock it
\* waits for is not itself waiting for a lock
C29_NoDeadlockOnLocks ==
    \A task \in LockTasks :
        IsWaiting(task) =>
            /\ \A lock \in Locks : lock_holder[lock] = task => lock_queue[lock] = << >>
            /\ lock_holder[task_at[task].pc] \in LockTasks \ {task}
            /\ ~IsWaiting(lock_holder[task_at[task].pc])

\* The reader holds the protocol lock and, inside it, the lock on
\* pending_requests, while another task waits for the protocol lock
C29_Witness ==
    /\ lock_holder["protocol"] = ReaderTask
    /\ lock_holder["pending_requests"] = ReaderTask
    /\ lock_queue["protocol"] # << >>


-----------------------------------------------------------------------------
(* Tool results of the direct-provider loop *)

RECURSIVE ToolUseIds(_)
\* The ids of the tool_use blocks of a response, in their order
ToolUseIds(content) ==
    IF content = << >> THEN << >>
    ELSE (IF Head(content).type = "tool_use" THEN <<Head(content).id>> ELSE << >>)
             \o ToolUseIds(Tail(content))

ToolResultIds(results) == [k \in 1..Len(results) |-> results[k].tool_use_id]

IsToolUseTurn ==
    /\ memory_tool
    /\ chat_last.response.status = "ok"
    /\ chat_last.response.stop = "tool_use"

\* C30: with the memory tool configured, a response with stop reason
\* tool_use appends exactly one assistant message with the response's
\* blocks and after it exactly one user message holding one tool_result per
\* tool_use block of the response, in the same order and with the same ids
C30_EveryToolUseAnswered ==
    IsToolUseTurn =>
        /\ Len(chat_last.pushed) = 2
        /\ chat_last.pushed[1] = AssistantMessage(chat_last.response.content)
        /\ chat_last.pushed[2].role = "user"
        /\ ToolResultIds(chat_last.pushed[2].content) =
               ToolUseIds(chat_last.response.content)


-----------------------------------------------------------------------------
(* How the direct-provider loop ends *)

\* The texts of the text blocks of a response, in their order
TextsInOrder(content) ==
    LET texts == SelectSeq(content, LAMBDA c : c.text # Null)
    IN  [k \in 1..Len(texts) |-> texts[k].text]

\* The last response ends the loop: its stop reason is end_turn or another
\* reason that is not tool_use, or it is tool_use and there is no memory tool
IsFinalResponse(last) ==
    /\ last.response.status = "ok"
    /\ last.response.stop # "tool_use" \/ ~memory_tool

\* C31: a response whose stop reason is not tool_use, or is tool_use while
\* no memory tool is configured, ends the loop at once: the call returns
\* with the texts of that response's text blocks in their order, nothing is
\* pushed and no tool is run for it, and no provider call follows
C31_FinalResponseEndsLoop ==
    /\ [][(calls' # calls /\ IsFinalResponse(chat_last')) =>
              /\ chat_pc' = "returned_ok"
              /\ final_text' = TextsInOrder(chat_last'.response.content)
              /\ chat_last'.pushed = << >>
              /\ messages' = messages]_vars
    /\ [](chat_pc = "returned_ok" => ~ENABLED ChatNext)

\* A tool_use response without a memory tool, holding two text blocks around
\* a tool_use block, has ended the loop
C31_Witness ==
    /\ chat_pc = "returned_ok"
    /\ ~memory_tool
    /\ chat_last.response.stop = "tool_use"
    /\ final_text = <<"a", "b">>
    /\ \E k \in 1..Len(chat_last.response.content) :
           chat_last.response.content[k].type = "tool_use"


\* The loop has run out of iterations: every response was a tool_use one
CapReached == chat_pc = "returned_ok" /\ iteration = MAX_ITERATIONS

\* C32: when the loop reaches the iteration cap the call returns
\* successfully with the text accumulated so far: the text blocks of the
\* responses are not lost, so those of the last response are in the text
\* returned
C32_TextKeptAtIterationCap ==
    CapReached =>
        \A k \in 1..Len(chat_last.response.content) :
            chat_last.response.content[k].text # Null =>
                \E j \in 1..Len(final_text) :
                    final_text[j] = chat_last.response.content[k].text


-----------------------------------------------------------------------------
(* Write failures of the client *)

\* send_message has returned a write error on a connected transport that
\* nobody has closed
SendFailed ==
    \E i \in 1..Len(writes) :
        /\ writes[i].by \in Callers
        /\ writes[i].phase = "connected"
        /\ writes[i].result = "transport_error"

\* C33: a failed transport write closes the client: after send_message has
\* returned a write error no later interrupt is accepted and no later
\* send_message succeeds
C33_WriteErrorClosesClient ==
    [][SendFailed =>
           /\ Len(control_chan') <= Len(control_chan)
           /\ \A i \in 1..Len(writes') :
                  (writes'[i].by \in Callers /\ writes'[i].result = "ok") =>
                      (i <= Len(writes) /\ writes[i].result = "ok")]_vars


\* The writer task has failed to write the line of a control request on a
\* connected transport that nobody has closed
ControlWriteFailed ==
    \E i \in 1..Len(writes) :
        /\ writes[i].by = ControlWriter
        /\ writes[i].phase = "connected"
        /\ writes[i].result = "transport_error"

\* C34: a control request whose transmission fails at the transport does
\* not tear the client down: the writer task still takes requests from the
\* control channel afterwards
C34_ControlWriteFailureKeepsWriter ==
    ControlWriteFailed => writer_pc[ControlWriter] # "stopped"


-----------------------------------------------------------------------------
\* ---- what reaches the child's stdin in streaming mode ----

\* The task is writing to stdin or on its way to it: it holds the transport
\* lock for a write, or waits for the lock
GoesForStdin(task) ==
    \/ lock_holder["transport"] = task /\ task_at[task].pc \in {"write", "send_message"}
    \/ InQueue(task, "transport")

\* The control writer task takes the request at the head of the channel
WriterTakes(request) ==
    /\ chans["control"] # << >>
    /\ Head(chans["control"]) = request
    /\ chans'["control"] = Tail(chans["control"])

\* The handler task is done with the response it created
ResponseCreated(task) ==
    /\ task_at[task].pc = "create_response"
    /\ task_at'[task].pc # "create_response"

\* C35: no hook response and no permission response is written to stdin.
\* A handler task never goes for the transport lock, and the response it
\* creates is put on no channel; a respond_to_hook or respond_to_permission
\* request taken by the control writer task leaves the task waiting for the
\* next request, with no write begun; the writer goes for stdin only with
\* an interrupt, the caller only in send_message
C35_ResponsesNeverWritten ==
    /\ [](\A task \in HandlerTasks : ~GoesForStdin(task))
    /\ [][\A task \in HandlerTasks : ResponseCreated(task) => chans' = chans]_vars
    /\ [][WriterTakes("response") =>
              /\ task_at'[WriterTask] = At("recv", "-")
              /\ lock_holder' = lock_holder
              /\ lock_queue' = lock_queue]_vars
    /\ [][(~GoesForStdin(WriterTask) /\ GoesForStdin(WriterTask)') =>
              WriterTakes("interrupt")]_vars
    /\ [](GoesForStdin(ApiCaller) =>
              (task_at[ApiCaller].pc = "send_message"
               \/ task_at[ApiCaller].then \in TransportMethods))

\* A response request is next on the control channel with the writer task
\* ready to take it and stdin free, while a handler task has a response
\* created that it is about to drop
C35_Witness ==
    /\ chans["control"] # << >>
    /\ Head(chans["control"]) = "response"
    /\ task_at[WriterTask] = At("recv", "-")
    /\ lock_holder["transport"] = Unlocked
    /\ \E task \in HandlerTasks : task_at[task].pc = "create_response"


-----------------------------------------------------------------------------
\* ---- the size ceiling of the JSON buffer ----

\* With the line, the buffer is longer than max_buffer_size
Overflows(kind) ==
    /\ kind # "empty"
    /\ BufferLen(Append(json_buffer, kind)) > MaxBufferSize

\* The line read last passed the ceiling, and its error is on the channel
AfterOverflow ==
    /\ msg_stream # << >>
    /\ msg_stream[Len(msg_stream)] = ErrItem("json_decode", lines_read)

\* C36: a line that takes the buffer over the ceiling gives one decode error
\* on the transport's channel, the buffer is emptied and the loop goes on;
\* a well-formed line read next is parsed alone and put on the channel as
\* its own value
C36_OverflowResetsBuffer ==
    /\ [][\A kind \in LineKinds :
              (ReadLine(kind) /\ Overflows(kind)) =>
                  /\ json_buffer' = << >>
                  /\ reader_task' = "reading"
                  /\ loop_left' = loop_left
                  /\ msg_stream' = IF ReceiverAlive
                                   THEN Append(msg_stream,
                                               ErrItem("json_decode", lines_read + 1))
                                   ELSE msg_stream]_vars
    /\ [](AfterOverflow => json_buffer = << >>)
    /\ [][\A kind \in ValueKinds :
              (ReadLine(kind) /\ AfterOverflow /\ ReceiverAlive) =>
                  /\ json_buffer' = << >>
                  /\ msg_stream' = Append(msg_stream, OkItem(kind, lines_read + 1))]_vars

\* The decode error of an over-long first line and then the data message of
\* the second line are on the transport's channel
C36_Witness ==
    /\ Len(msg_stream) = 2
    /\ msg_stream[1] = ErrItem("json_decode", 1)
    /\ msg_stream[2] = OkItem("data", 2)
    /\ json_buffer = << >>


-----------------------------------------------------------------------------
\* ---- a line that is no JSON and begins no JSON value ----

\* The buffer starts with a line that can begin no JSON value (the line
\* kind "close" read into an empty buffer, such as a lone closing brace or a
\* word of plain text)
BufferMalformed == json_buffer # << >> /\ Head(json_buffer) = "close"

\* C37: a line that is not JSON and begins no JSON value affects only
\* itself: a well-formed single-line value read after it is put on the
\* transport's channel as its own value
C37_MalformedLineAffectsOnlyItself ==
    [][\A kind \in ValueKinds :
           (ReadLine(kind) /\ BufferMalformed /\ ReceiverAlive) =>
               msg_stream' = Append(msg_stream, OkItem(kind, lines_read + 1))]_vars


-----------------------------------------------------------------------------
\* ---- registering a request and the requests in flight ----

\* The request registered under the id is in flight: its receiver waits
InFlight(id) == id \in DOMAIN pending_requests /\ slots[pending_requests[id]] = Waiting

\* C38: every entry of the pending table is an in-flight request, and no
\* step disturbs it: the receiver of a request in flight goes on waiting
\* under its id until the response carrying that id resolves it
C38_RegisteringDisturbsNoRequest ==
    /\ [](\A id \in DOMAIN pending_requests : InFlight(id))
    /\ [][\A id \in DOMAIN pending_requests :
              LET k == pending_requests[id] IN
              \/ /\ id \in DOMAIN pending_requests'
                 /\ pending_requests'[id] = k
                 /\ slots'[k] = Waiting
              \/ \E r \in PendingResponses :
                     /\ r.id = id
                     /\ lastOp' = [op |-> "handle_response", response |-> r, ok |-> TRUE]
                     /\ slots'[k] = Resolved(r)]_vars


-----------------------------------------------------------------------------
(* Hook events and the automatic hook handler: client/mod.rs *)

\* Two of the six kinds of HookEvent
HookEvents == {"PreToolUse", "PostToolUse"}

\* A matcher of options.hooks, with one callback; "event" is the key of the
\* map the matcher was found under, which HookManager::register is not given
MatchersUnder ==
    [matcher : {Absent, Some(Bash)}, hooks : [1..1 -> CallbackResults], event : HookEvents]

\* ClaudeSDKClient::new: for matchers in hooks_config.values(), for matcher
\* in matchers, manager.register(matcher.clone()); the map is walked in any
\* order
RegisteredFromOptions == UNION {[1..k -> MatchersUnder] : k \in 0..MaxMatchers}

\* A client whose constructor has returned, with hooks configured and no
\* can_use_tool callback
InitHookEvents ==
    /\ next_request_id = 1
    /\ initialized = TRUE
    /\ pending_requests = << >>
    /\ slots = << >>
    /\ requests = [t \in Tasks |-> None]
    /\ generated = << >>
    /\ hook_tx = "open"
    /\ permission_tx = "closed"
    /\ hook_chan = << >>
    /\ permission_chan = << >>
    /\ lastOp = NoOp
    /\ ChatIdle
    /\ MemIdle
    /\ ClientNew
    /\ client_life = "alive"
    /\ hook_task = "waiting"
    /\ permission_task = "none"
    /\ hook_outputs = << >>
    /\ permission_results = << >>
    /\ matchers \in RegisteredFromOptions
    /\ perm_manager = NewPermissionManager
    /\ hook_call = NoCall
    /\ match_call = NoCall
    /\ perm_call = NoCall
    /\ text_call = NoCall
    /\ mcp_call = NoCall
    /\ LocksNew
    /\ parent_env = EnvOf({"PATH", "HOME"}, "parent")
    /\ options_env = NoEnv
    /\ cwd = Absent
    /\ child_env = SpawnEnv(parent_env, ProcessEnv(parent_env, options_env, cwd))

\* handle_response, arm Hook, called by message_reader_task for a hook
\* envelope of the CLI: (id, event) goes on the hook channel
HookEventReceived(event) ==
    /\ LifeOnly /\ WriteSame /\ ReadSame
    /\ Len(hook_chan) + Len(hook_outputs) < MaxEvents
    /\ hook_chan' = Append(hook_chan, [id |-> <<"h">>, event |-> event])
    /\ UNCHANGED <<next_request_id, initialized, pending_requests, slots, requests,
                   generated, hook_tx, permission_tx, permission_chan>>
    /\ UNCHANGED <<client_life, hook_task, permission_task, hook_outputs,
                   permission_results>>
    /\ UNCHANGED <<ready, stdin, stdout, process, reader_task, child, closed>>

\* hook_handler_task, one pass of its loop: (hook_id, _event) is received,
\* the manager is invoked with empty data and no tool name, and for Ok a
\* hook response is created
HookHandlerInvokes ==
    /\ LifeOnly /\ WriteSame /\ ReadSame
    /\ hook_task = "waiting"
    /\ hook_chan # << >>
    /\ hook_chan' = Tail(hook_chan)
    /\ hook_outputs' = Append(hook_outputs, [event |-> Head(hook_chan).event,
                                             result |-> invoke(matchers, Absent)])
    /\ IF invoke(matchers, Absent).ok
          THEN /\ generated' = Append(generated, next_id)
               /\ next_request_id' = FetchAdd(next_request_id)
          ELSE UNCHANGED <<generated, next_request_id>>
    /\ UNCHANGED <<initialized, pending_requests, slots, requests, hook_tx,
                   permission_tx, permission_chan>>
    /\ UNCHANGED <<client_life, hook_task, permission_task, permission_results>>
    /\ UNCHANGED <<ready, stdin, stdout, process, reader_task, child, closed>>

HookEventNext ==
    \/ \E event \in HookEvents : HookEventReceived(event)
    \/ HookHandlerInvokes

\* Hook events of the CLI arrive at a client with hooks configured
SpecHookEvents == InitHookEvents /\ [][HookEventNext]_vars

\* C39: a callback registered under hook event E is invoked by the hook
\* handler task only for an incoming hook event of kind E
C39_CallbackOnlyForItsEvent ==
    \A n \in 1..Len(hook_outputs) :
        \A c \in 1..Len(hook_outputs[n].result.invoked) :
            matchers[hook_outputs[n].result.invoked[c][1]].event = hook_outputs[n].event


-----------------------------------------------------------------------------
\* ---- next_message after close ----

\* The client's reader task is scheduled when it can take a step, and the
\* caller goes on calling next_message
CloseFairness ==
    /\ WF_vars(MessageReaderTask)
    /\ WF_vars(MessageReaderEnds)
    /\ WF_vars(NextMessage)

\* The read path of a connected client that is closed at some time, with a
\* reader task that is scheduled fairly and a caller that keeps reading
SpecClose == InitRead /\ [][ReadNext]_vars /\ CloseFairness

\* next_message has returned None
NoneReturned == delivered # << >> /\ delivered[Len(delivered)] = NoneItem

\* C40: after close() has returned, next_message returns what is queued on
\* the message channel, oldest first, and None only when nothing is queued
\* and the reader task has ended; the reader task does end, and next_message
\* does return None
C40_NextMessageEndsAfterClose ==
    /\ [][(closed /\ delivered' # delivered) =>
              IF message_chan # << >>
              THEN delivered' = Append(delivered, Head(message_chan))
              ELSE reader_pc = "stopped" /\ delivered' = Append(delivered, NoneItem)]_vars
    /\ closed ~> (reader_pc = "stopped")
    /\ closed ~> NoneReturned

\* close() aborted the transport's reader task while it read, and
\* next_message has returned a data message and then None
C40_Witness ==
    /\ closed
    /\ reader_task = "aborted"
    /\ reader_pc = "stopped"
    /\ Len(delivered) >= 2
    /\ delivered[Len(delivered) - 1].ok
    /\ NoneReturned

=============================================================================
